---- MODULE Spec2Model ----
(***************************************************************************)
(* Model of the collection core of Info-Collect-Compare:                   *)
(*   connection/buffer_manager.py     BufferManager                        *)
(*   connection/connection_worker.py  HighPerformanceConnectionWorker      *)
(*   connection/ssh_connection.py     SSHConnection.execute_command        *)
(*   connection/telnet_connection.py  TelnetConnection.execute_command     *)
(*   connection/utils.py              ConnectionUtils.format_command_output*)
(*                                                                         *)
(* The specifications share the variables:                                 *)
(*   Spec    one run of the worker thread (run -> _execute_commands ->     *)
(*           _finalize) with stop() and the wall clock interleaved;        *)
(*   SpecBM  a BufferManager driven by an arbitrary sequence of add_data,  *)
(*           flush_buffer and finalize calls.                              *)
(* SpecFair is Spec for the longest command list with the worker thread    *)
(* scheduled fairly.  SpecReader follows the read of one command pass by   *)
(* pass (_read_until_prompt, _read_output) with stop() interleaved.        *)
(***************************************************************************)
EXTENDS Integers, Sequences, FiniteSets, TLC

\* ------------------------------------------------------------------ bounds
\* longest command list of a run
MaxCmds == 2
\* the wall clock shows the seconds 1..MaxClock
MaxClock == 2
\* number of BufferManager calls in SpecBM
MaxCalls == 4
\* SpecReader counts time in ticks, one tick for one pass of a read loop,
\* and bytes in chunks, one chunk for one recv / read_some that returned
\* data.  The timeout argument of the reader, in ticks:
Timeout == 6
\* max_output_size of the reader (48MB), in chunks
CapChunks == 2
\* idle_probe_window / idle_window, in ticks
IdleWindow == 2
\* the time the reader may take after its deadline: one more pass
Grace == 1
\* the last tick SpecReader looks at
MaxTime == 9
\* longest buffer the prompt pattern is applied to in SpecFn, in characters
MaxBuf == 4
\* the reader's tail_keep (8192 bytes in the code), in characters
tail_keep == 3
\* most chunks read in the window of _verify_login in SpecFn
MaxChunks == 2
\* the setup commands of a session in SpecSession (five in the code)
MaxSetup == 2
\* the idle windows a read waits through before its deadline in SpecSession
SessTimeout == 1
\* most calls made on one connection object in SpecConn
MaxOps == 5
\* longest text the formatter and the readers' normalisations are applied
\* to in SpecFn, in characters
MaxText == 4

\* --------------------------------------------------------------- constants
MB == 1024 * 1024
\* BufferManager.max_buffer_size, the soft threshold
max_buffer_size == 5 * MB
\* BufferManager.max_output_size, the run-level cap
max_output_size == 50 * MB
\* SSHConnection.max_output_size / TelnetConnection._read_output max_size
max_command_size == 48 * MB
\* BufferManager._last_filepath = "" : no file written yet
NoPath == 0

\* size (bytes) of the device output of one command of a run: two such
\* blocks exceed the soft threshold
OutputSizes == {3 * MB}
\* bytes received when the reader stops at the per-command cap (last chunk
\* crosses it) plus the marker "\n[输出截断，超过48MB限制]" (33 bytes)
TruncatedSize == max_command_size + 1024 + 33
\* sizes of the blocks handed to add_data in SpecBM
BlockSizes == {1 * MB, 3 * MB, TruncatedSize}

\* ------------------------------------------------------------ file system
\* A path of the output directory is identified by the timestamp in its name
\* (mode and ip are fixed for one BufferManager): path t is
\* "<mode>-<ip>-<second t>.txt".  files maps each existing path to its
\* content, the sequence of blocks written to it.

\* datetime.now().strftime(...) + os.path.join: the path named by second now
TimestampPath(now) == now

\* open(filepath, 'a' if exists else 'w') followed by f.write of each block
WriteFile(fs, path, blocks) ==
    [p \in DOMAIN fs \cup {path} |->
        IF p = path
        THEN (IF path \in DOMAIN fs THEN fs[path] ELSE <<>>) \o blocks
        ELSE fs[p]]

\* outcomes of the file I/O of one flush: the write succeeds, open() raises,
\* or f.write raises after k blocks reached the file
IOOutcomes(buf) ==
    {<<"ok", 0>>, <<"open_fail", 0>>}
        \cup {<<"write_fail", k>> : k \in 0 .. (Len(buf) - 1)}

\* ---------------------------------------------------------- BufferManager
\* BufferManager.__init__
NewBufferManager ==
    [output_buffer |-> <<>>, buffer_size |-> 0, total_bytes |-> 0,
     _last_filepath |-> NoPath]

\* flush_buffer emptying the buffer before the write, so that a failed write
\* loses the buffered blocks
flush_buffer_clear_first(b, fs, now, io) ==
    IF b.output_buffer = <<>>
    THEN [bm |-> b, files |-> fs, ret |-> FALSE, io_error |-> FALSE]
    ELSE LET filepath == TimestampPath(now)
             cleared == [b EXCEPT !.output_buffer = <<>>, !.buffer_size = 0]
         IN
         CASE io[1] = "ok" ->
                [bm |-> [cleared EXCEPT !._last_filepath = filepath],
                 files |-> WriteFile(fs, filepath, b.output_buffer),
                 ret |-> TRUE, io_error |-> FALSE]
           [] io[1] = "open_fail" ->
                [bm |-> cleared, files |-> fs, ret |-> FALSE,
                 io_error |-> TRUE]
           [] OTHER ->
                [bm |-> cleared,
                 files |-> WriteFile(fs, filepath,
                                     SubSeq(b.output_buffer, 1, io[2])),
                 ret |-> FALSE, io_error |-> TRUE]

\* BufferManager.flush_buffer
flush_buffer(b, fs, now, io) ==
    IF b.output_buffer = <<>>
    THEN [bm |-> b, files |-> fs, ret |-> FALSE, io_error |-> FALSE]
    ELSE LET filepath == TimestampPath(now) IN
         CASE io[1] = "ok" ->
                [bm |-> [b EXCEPT !.output_buffer = <<>>,
                                  !.buffer_size = 0,
                                  !._last_filepath = filepath],
                 files |-> WriteFile(fs, filepath, b.output_buffer),
                 ret |-> TRUE, io_error |-> FALSE]
           [] io[1] = "open_fail" ->
                [bm |-> b, files |-> fs, ret |-> FALSE, io_error |-> TRUE]
           [] OTHER ->
                [bm |-> b,
                 files |-> WriteFile(fs, filepath,
                                     SubSeq(b.output_buffer, 1, io[2])),
                 ret |-> FALSE, io_error |-> TRUE]

\* add_data with the cap compared against the bytes accepted so far only,
\* leaving out the size of the block being added
add_data_cap_without_block(b, fs, now, io, data) ==
    IF b.total_bytes > max_output_size
    THEN [bm |-> b, files |-> fs, ret |-> FALSE, io_error |-> FALSE]
    ELSE LET f == IF b.buffer_size + data.size > max_buffer_size
                  THEN flush_buffer(b, fs, now, io)
                  ELSE [bm |-> b, files |-> fs, ret |-> FALSE,
                        io_error |-> FALSE]
         IN [bm |-> [f.bm EXCEPT
                        !.output_buffer = Append(@, data),
                        !.buffer_size = @ + data.size,
                        !.total_bytes = @ + data.size],
             files |-> f.files, ret |-> TRUE, io_error |-> f.io_error]

\* add_data with the soft-threshold flush done before the cap is checked
add_data_flush_before_cap(b, fs, now, io, data) ==
    LET f == IF b.buffer_size + data.size > max_buffer_size
             THEN flush_buffer(b, fs, now, io)
             ELSE [bm |-> b, files |-> fs, ret |-> FALSE, io_error |-> FALSE]
    IN IF b.total_bytes + data.size > max_output_size
       THEN [bm |-> f.bm, files |-> f.files, ret |-> FALSE,
             io_error |-> f.io_error]
       ELSE [bm |-> [f.bm EXCEPT
                        !.output_buffer = Append(@, data),
                        !.buffer_size = @ + data.size,
                        !.total_bytes = @ + data.size],
             files |-> f.files, ret |-> TRUE, io_error |-> f.io_error]

\* BufferManager.add_data; data is a block, data.size its UTF-8 length
add_data(b, fs, now, io, data) ==
    IF b.total_bytes + data.size > max_output_size
    THEN [bm |-> b, files |-> fs, ret |-> FALSE, io_error |-> FALSE]
    ELSE LET f == IF b.buffer_size + data.size > max_buffer_size
                  THEN flush_buffer(b, fs, now, io)
                  ELSE [bm |-> b, files |-> fs, ret |-> FALSE,
                        io_error |-> FALSE]
         IN [bm |-> [f.bm EXCEPT
                        !.output_buffer = Append(@, data),
                        !.buffer_size = @ + data.size,
                        !.total_bytes = @ + data.size],
             files |-> f.files, ret |-> TRUE, io_error |-> f.io_error]

\* BufferManager._get_last_filepath
_get_last_filepath(b, now) ==
    IF b._last_filepath # NoPath THEN b._last_filepath
    ELSE TimestampPath(now)

\* finalize returning the path without making sure that the file exists
finalize_no_create(b, fs, now, io, create_ok) ==
    LET f == flush_buffer(b, fs, now, io)
    IN [bm |-> f.bm, files |-> f.files,
        filepath |-> _get_last_filepath(f.bm, now),
        total_bytes |-> f.bm.total_bytes, io_error |-> f.io_error]

\* BufferManager.finalize; create_ok: whether creating the empty file works
finalize(b, fs, now, io, create_ok) ==
    LET f == flush_buffer(b, fs, now, io)
        filepath == _get_last_filepath(f.bm, now)
        missing == filepath \notin DOMAIN f.files
    IN [bm |-> f.bm,
        files |-> IF missing /\ create_ok
                  THEN WriteFile(f.files, filepath, <<>>)
                  ELSE f.files,
        filepath |-> IF missing /\ ~create_ok THEN NoPath ELSE filepath,
        total_bytes |-> f.bm.total_bytes,
        io_error |-> f.io_error \/ (missing /\ ~create_ok)]

\* ------------------------------------------------------------ the device
\* the commands a command file may hold
Cmds == {"show version", "show clock"}

\* len(cmd.encode('utf-8'))
CmdBytes(cmd) == IF cmd = "show version" THEN 12 ELSE 10

\* all command lists of at most n commands
CommandLists(n) == UNION {[1 .. k -> Cmds] : k \in 0 .. n}

\* how the exchange with the device for one command ends:
\*   prompt      the tail matched the prompt pattern
\*   timeout     the deadline passed without a prompt match
\*   cap         the bytes received reached max_output_size (48MB)
\*   send_error  channel.send / tn.write raised (channel closed, ...)
\*   read_error  recv_ready / recv / read raised inside the read loop
DeviceEnds == {"prompt", "timeout", "cap", "send_error", "read_error"}

\* the sizes of the text the reader can return for each ending
EndSizes(end) ==
    CASE end \in {"prompt", "timeout"} -> OutputSizes
      [] end = "cap" -> {TruncatedSize}
      [] OTHER -> {0}

\* SSHConnection._read_until_prompt / TelnetConnection._read_output: the
\* text returned for an ending.  A text is [text, marker, size]: where the
\* text comes from, the marker appended to it, its UTF-8 length.  The loop
\* left by the deadline returns the decoded bytes like the loop left by a
\* prompt match; an exception inside the loop is returned as the text
\* "读取错误: ...".
read_until_prompt(end, size) ==
    CASE end = "cap" ->
            [text |-> "device", marker |-> "truncated", size |-> size]
      [] end = "read_error" ->
            [text |-> "read_error", marker |-> "none", size |-> 40]
      [] OTHER ->
            [text |-> "device", marker |-> "none", size |-> size]

\* SSHConnection.execute_command / TelnetConnection.execute_command:
\* the (success, output) pair
execute_command(proto, conn, end, size) ==
    IF ~conn
    THEN [success |-> FALSE,
          output |-> [text |-> "not_connected", marker |-> "none",
                      size |-> IF proto = "ssh" THEN 18 ELSE 21]]
    ELSE IF end = "send_error"
    THEN [success |-> FALSE,
          output |-> [text |-> "exec_error", marker |-> "none",
                      size |-> 120]]
    ELSE [success |-> TRUE, output |-> read_until_prompt(end, size)]

\* ConnectionUtils.format_command_output: "<cmd>\n<out>\n\n".  The success
\* argument is not used by the function.  id is the position of the command
\* in the list (history, to tell equal blocks apart).
format_command_output(id, cmd, output, success) ==
    [id |-> id, cmd |-> cmd, text |-> output.text, marker |-> output.marker,
     size |-> CmdBytes(cmd) + 1 + output.size + 2]

\* the text f"错误: {str(e)}" of the worker's except branch
ExceptionText == [text |-> "exception", marker |-> "none", size |-> 40]

\* count_command with a block accepted by add_data counted as failed
count_command_accepted_failed(st, raised, added) ==
    [st EXCEPT !.failed_commands = @ + 1]

\* count_command with a block rejected by add_data counted nowhere
count_command_drop_rejected(st, raised, added) ==
    IF raised THEN [st EXCEPT !.failed_commands = @ + 1]
    ELSE IF added THEN [st EXCEPT !.completed_commands = @ + 1]
    ELSE st

\* count_command with the else of line 180 missing: a rejected block is
\* counted as failed and as completed
count_command_both(st, raised, added) ==
    IF raised THEN [st EXCEPT !.failed_commands = @ + 1]
    ELSE IF added THEN [st EXCEPT !.completed_commands = @ + 1]
    ELSE [st EXCEPT !.failed_commands = @ + 1, !.completed_commands = @ + 1]

\* _execute_commands, lines 178-181 and 184: the counter one command
\* changes.  raised: an exception reached the worker's except branch;
\* added: what add_data returned in the try branch.
count_command(st, raised, added) ==
    IF raised THEN [st EXCEPT !.failed_commands = @ + 1]
    ELSE IF added THEN [st EXCEPT !.completed_commands = @ + 1]
    ELSE [st EXCEPT !.failed_commands = @ + 1]

\* ------------------------------------------------------------------ state
VARIABLES
    bm,         \* the BufferManager's fields
    files,      \* the output directory: path -> content
    clock,      \* the wall clock, in seconds
    protocol,   \* worker.protocol
    commands,   \* worker.commands
    pc,         \* where run() is: start, loop, exec, finalize, done
    i,          \* the loop index of _execute_commands, 1-based
    is_running, \* worker.is_running
    connected,  \* connection.connected
    stats,      \* worker.stats
    finished,   \* the finished_signal emitted, or NoSignal
    accepted,   \* history: the blocks add_data returned True for, in order
    io_failed,  \* history: some file operation of this BufferManager failed
    last,       \* history: the last BufferManager call and what it returned
    log,        \* history: one record per command the loop executed
    connect_ok, \* history: connect() returned True
    broke,      \* history: the loop was left by the is_running check
    rpc,        \* where the read of one command is: idle, loop, residue,
                \* returned
    now,        \* time.time() - start of the reader, in ticks
    buf,        \* the reader's buf: the chunks received, in order
    total,      \* the reader's total / total_size, in chunks
    last_data_ts, \* the reader's last_data_ts, in ticks since start
    output,     \* what execute_command got back from the reader
    received,   \* history: the chunks the transport handed to the reader
    probes,     \* history: the idle probes ("\r") the reader sent
    events,     \* history: the signals the worker emitted and the steps of
                \* the session setup, in order
    last_error_code, \* connection.last_error_code (SSHConnection only)
    params,     \* the ip, port, username and password given to the worker
    transport,  \* SpecConn: a connection object on its own
    call,       \* SpecFn: the last function applied, its argument and result
    rg,         \* history of the read of one command: when the last probe
                \* was sent and the last chunk received, whether the tail
                \* matched, how the reader returned
    sess        \* SpecSession: the device, the channel and the exchanges
                \* of one session

bmvars == <<bm, files>>
wvars == <<protocol, commands, pc, i, is_running, connected, stats, finished,
           log, connect_ok, broke>>
rvars == <<rpc, now, buf, total, last_data_ts, output, received, probes>>
nvars == <<events, last_error_code, params, transport, call>>
svars == <<rg, sess>>
vars == <<bm, files, clock, protocol, commands, pc, i, is_running, connected,
          stats, finished, accepted, io_failed, last, log, connect_ok, broke,
          rpc, now, buf, total, last_data_ts, output, received, probes,
          events, last_error_code, params, transport, call, rg, sess>>

NoCall == [n |-> 0, op |-> "none", ret |-> FALSE, filepath |-> NoPath,
           content |-> <<>>, io_error |-> FALSE]
NoSignal == [emitted |-> FALSE]
\* parameters that pass validate_connection_params; an ip is the sequence of
\* its characters
ValidParams ==
    [ip |-> <<"1", ".", "1", ".", "1", ".", "1">>, port |-> 22,
     username |-> "admin", password |-> "secret"]
\* SSHConnection.__init__ / TelnetConnection.__init__: client stands for
\* self.ssh / self.tn, channel for self.channel (SSH only); the other
\* fields are history of the calls made in SpecConn: ops the methods called,
\* in order, raised and success what the last call did, sent the commands
\* written to the device
NewTransport ==
    [client |-> FALSE, channel |-> FALSE, connected |-> FALSE,
     ops |-> <<>>, raised |-> FALSE, success |-> FALSE, sent |-> 0]
NoFn == [fn |-> "none", arg |-> <<>>, res |-> <<>>]
\* the history of a read before its first pass: no probe sent and no chunk
\* received yet (-1), no match, not returned
NoRead ==
    [last_probe |-> -1, last_recv |-> -1, matched |-> FALSE,
     match_at |-> -1, absorbed |-> 0, via |-> "none"]
\* no session (the specifications other than SpecSession)
NoSession ==
    [phase |-> "none", k |-> 0, rd |-> "none", inq |-> <<>>,
     flight |-> <<>>, ready |-> <<>>, got |-> <<>>, waited |-> 0,
     via |-> "none", tried |-> 0, blocks |-> <<>>]
NoOutput == [text |-> "none", marker |-> "none", chunks |-> <<>>]

\* HighPerformanceConnectionWorker.__init__ and BufferManager.__init__; at is
\* where run() stands: "init" before the validation, "start" after it
InitWith(cmds, proto, p, at) ==
    /\ bm = NewBufferManager
    /\ files = << >>
    /\ clock = 1
    /\ protocol = proto
    /\ commands = cmds
    /\ pc = at
    /\ i = 1
    /\ is_running = TRUE
    /\ connected = FALSE
    /\ stats = [total_commands |-> Len(cmds), completed_commands |-> 0,
                failed_commands |-> 0]
    /\ finished = NoSignal
    /\ accepted = <<>>
    /\ io_failed = FALSE
    /\ last = NoCall
    /\ log = <<>>
    /\ connect_ok = FALSE
    /\ broke = FALSE
    /\ rpc = "idle"
    /\ now = 0
    /\ buf = <<>>
    /\ total = 0
    /\ last_data_ts = 0
    /\ output = NoOutput
    /\ received = 0
    /\ probes = 0
    /\ events = <<>>
    /\ last_error_code = ""
    /\ params = p
    /\ transport = NewTransport
    /\ call = NoFn
    /\ rg = NoRead
    /\ sess = NoSession

\* the worker of a run whose parameters passed the validation, at the point
\* where run() has validated them
InitFor(cmds, proto) == InitWith(cmds, proto, ValidParams, "start")

Init == \E cmds \in CommandLists(MaxCmds) : \E proto \in {"ssh", "telnet"} :
            InitFor(cmds, proto)

\* a BufferManager on its own
InitBM == InitFor(<<>>, "ssh")

\* the wall clock advances between any two steps
Tick ==
    /\ clock < MaxClock
    /\ clock' = clock + 1
    /\ UNCHANGED <<bm, files, accepted, io_failed, last>>
    /\ UNCHANGED wvars
    /\ UNCHANGED rvars
    /\ UNCHANGED nvars
    /\ UNCHANGED svars

\* ------------------------------------------- SpecBM: any sequence of calls
BMAddData ==
    /\ last.n < MaxCalls
    /\ \E size \in BlockSizes :
       \E io \in IOOutcomes(bm.output_buffer) :
         LET data == [id |-> last.n + 1, size |-> size]
             r == add_data(bm, files, clock, io, data)
         IN /\ bm' = r.bm
            /\ files' = r.files
            /\ accepted' = IF r.ret THEN Append(accepted, data) ELSE accepted
            /\ io_failed' = (io_failed \/ r.io_error)
            /\ last' = [n |-> last.n + 1, op |-> "add_data", ret |-> r.ret,
                        filepath |-> NoPath, content |-> <<>>,
                        io_error |-> r.io_error]
    /\ UNCHANGED <<clock, wvars>>
    /\ UNCHANGED rvars
    /\ UNCHANGED nvars
    /\ UNCHANGED svars

BMFlush ==
    /\ last.n < MaxCalls
    /\ \E io \in IOOutcomes(bm.output_buffer) :
         LET r == flush_buffer(bm, files, clock, io)
         IN /\ bm' = r.bm
            /\ files' = r.files
            /\ io_failed' = (io_failed \/ r.io_error)
            /\ last' = [n |-> last.n + 1, op |-> "flush_buffer",
                        ret |-> r.ret, filepath |-> NoPath, content |-> <<>>,
                        io_error |-> r.io_error]
    /\ UNCHANGED <<clock, accepted, wvars>>
    /\ UNCHANGED rvars
    /\ UNCHANGED nvars
    /\ UNCHANGED svars

BMFinalize ==
    /\ last.n < MaxCalls
    /\ \E io \in IOOutcomes(bm.output_buffer) : \E create_ok \in BOOLEAN :
         LET r == finalize(bm, files, clock, io, create_ok)
         IN /\ bm' = r.bm
            /\ files' = r.files
            /\ io_failed' = (io_failed \/ r.io_error)
            /\ last' = [n |-> last.n + 1, op |-> "finalize", ret |-> TRUE,
                        filepath |-> r.filepath,
                        content |-> IF r.filepath \in DOMAIN r.files
                                    THEN r.files[r.filepath] ELSE <<>>,
                        io_error |-> r.io_error]
    /\ UNCHANGED <<clock, accepted, wvars>>
    /\ UNCHANGED rvars
    /\ UNCHANGED nvars
    /\ UNCHANGED svars

NextBM == BMAddData \/ BMFlush \/ BMFinalize \/ Tick

SpecBM == InitBM /\ [][NextBM]_vars

\* ----------------------------------------------------- Spec: one worker run
\* next_command skipping a command
next_command_skip(k) == k + 2

\* _execute_commands, line 156: the command the loop continues with after
\* command number k (the try/except lies inside the loop body)
next_command(k) == k + 1

\* the signals of the worker and the steps of the session setup, as events
ProgressEvent(p) ==
    [kind |-> "progress", percent |-> p, type |-> "", code |-> ""]
\* error_signal.emit(type, message); code is the error code the message or
\* the signal carries, "" when it carries none
ErrorEvent(t, c) ==
    [kind |-> "error", percent |-> 0, type |-> t, code |-> c]
FinishedEvent ==
    [kind |-> "finished", percent |-> 0, type |-> "", code |-> ""]
SetupEvent(k) == [kind |-> k, percent |-> 0, type |-> "", code |-> ""]

\* the exceptions ssh.connect / invoke_shell raise, by what
\* _classify_connect_error looks at
ConnectFailures ==
    {"gaierror", "timeout", "no_valid_connections", "refused", "no_route",
     "reset", "auth", "bad_host_key", "ssh_exception", "other"}

\* the codes of _classify_connect_error
ErrorCodes ==
    {"DNS_RESOLUTION_FAILED", "NETWORK_TIMEOUT", "CONNECTION_REFUSED",
     "HOST_UNREACHABLE", "CONNECTION_RESET", "AUTH_FAILED",
     "HOSTKEY_MISMATCH", "SSH_PROTOCOL_ERROR", "UNKNOWN"}

\* SSHConnection._classify_connect_error: the code of the first test that
\* the exception passes
_classify_connect_error(e) ==
    CASE e = "gaierror" -> "DNS_RESOLUTION_FAILED"
      [] e \in {"timeout", "no_valid_connections"} -> "NETWORK_TIMEOUT"
      [] e = "refused" -> "CONNECTION_REFUSED"
      [] e = "no_route" -> "HOST_UNREACHABLE"
      [] e = "reset" -> "CONNECTION_RESET"
      [] e = "auth" -> "AUTH_FAILED"
      [] e = "bad_host_key" -> "HOSTKEY_MISMATCH"
      [] e = "ssh_exception" -> "SSH_PROTOCOL_ERROR"
      [] OTHER -> "UNKNOWN"

\* connect_events with the prompt detected a second time after the
\* pagination commands
connect_events_detect_again(proto, ok) ==
    IF proto = "ssh"
    THEN <<ProgressEvent(5)>> \o
         (IF ok THEN <<SetupEvent("detect_prompt"), ProgressEvent(10),
                       SetupEvent("pagination"), SetupEvent("detect_prompt")>>
          ELSE <<ErrorEvent("ssh", "")>>)
    ELSE <<ProgressEvent(5)>> \o
         (IF ok THEN <<SetupEvent("detect_prompt"), SetupEvent("pagination"),
                       SetupEvent("detect_prompt"), ProgressEvent(15)>>
          ELSE <<ErrorEvent("telnet", "")>>)

\* _run_ssh, lines 85-97, with SSHConnection.connect and
\* _prepare_ssh_terminal; _run_telnet, lines 124-135, with
\* TelnetConnection.connect: what happens up to _execute_commands, in
\* order.  The error signal carries the text of the exception raised in
\* the worker ("SSH连接失败" / "Telnet连接失败").
connect_events(proto, ok) ==
    IF proto = "ssh"
    THEN <<ProgressEvent(5)>> \o
         (IF ok THEN <<SetupEvent("detect_prompt"), ProgressEvent(10),
                       SetupEvent("pagination")>>
          ELSE <<ErrorEvent("ssh", "")>>)
    ELSE <<ProgressEvent(5)>> \o
         (IF ok THEN <<SetupEvent("pagination"), SetupEvent("detect_prompt"),
                       ProgressEvent(15)>>
          ELSE <<ErrorEvent("telnet", "")>>)

\* _execute_commands, line 160: progress = 10 + int(80 * i / len(commands)),
\* k the 0-based index of the command
progress(k, n) == 10 + (80 * k) \div n

\* a failed connect() that ends the run without _finalize
after_connect_skip_finalize(ok) == IF ok THEN "loop" ELSE "done"

\* a failed connect() that does not keep the run from the command loop
after_connect_always_loop(ok) == "loop"

\* _run_ssh, lines 89-94, and _run_telnet: where the run goes on after
\* connect() returned ok; "if not self.connection.connect(): raise" leaves
\* the try block before _execute_commands, and run's finally calls _finalize
after_connect(ok) == IF ok THEN "loop" ELSE "finalize"

\* the loop never looking at the stop flag
should_break_never(running) == FALSE

\* _execute_commands, lines 157-158: "if not self.is_running: break"
should_break(running) == ~running

\* run -> _run_ssh / _run_telnet up to the call of _execute_commands:
\* connect() returns ok; on failure the exception raised is reported with
\* error_signal and run goes on to _finalize
Connect ==
    /\ pc = "start"
    /\ \E ok \in BOOLEAN :
       \E e \in (IF ok THEN {"none"} ELSE ConnectFailures) :
         /\ connected' = ok
         /\ connect_ok' = ok
         /\ pc' = after_connect(ok)
         /\ events' = events \o connect_events(protocol, ok)
         /\ last_error_code' = IF ~ok /\ protocol = "ssh"
                                THEN _classify_connect_error(e)
                                ELSE last_error_code
    /\ UNCHANGED <<bm, files, clock, protocol, commands, i, is_running, stats,
                   finished, accepted, io_failed, last, log, broke>>
    /\ UNCHANGED rvars
    /\ UNCHANGED <<params, transport, call>>
    /\ UNCHANGED svars

\* _execute_commands, line 156: the list is exhausted
LoopExit ==
    /\ pc = "loop"
    /\ i > Len(commands)
    /\ pc' = "finalize"
    /\ UNCHANGED <<bm, files, clock, protocol, commands, i, is_running,
                   connected, stats, finished, accepted, io_failed, last, log,
                   connect_ok, broke>>
    /\ UNCHANGED rvars
    /\ UNCHANGED nvars
    /\ UNCHANGED svars

\* _execute_commands, lines 157-158: the stop flag is seen before a command
LoopBreak ==
    /\ pc = "loop"
    /\ i <= Len(commands)
    /\ should_break(is_running)
    /\ pc' = "finalize"
    /\ broke' = TRUE
    /\ UNCHANGED <<bm, files, clock, protocol, commands, i, is_running,
                   connected, stats, finished, accepted, io_failed, last, log,
                   connect_ok>>
    /\ UNCHANGED rvars
    /\ UNCHANGED nvars
    /\ UNCHANGED svars

\* _execute_commands, lines 160-161: the next command is started
StartCommand ==
    /\ pc = "loop"
    /\ i <= Len(commands)
    /\ ~should_break(is_running)
    /\ pc' = "exec"
    /\ events' = Append(events, ProgressEvent(progress(i - 1, Len(commands))))
    /\ UNCHANGED <<bm, files, clock, protocol, commands, i, is_running,
                   connected, stats, finished, accepted, io_failed, last, log,
                   connect_ok, broke>>
    /\ UNCHANGED rvars
    /\ UNCHANGED <<last_error_code, params, transport, call>>
    /\ UNCHANGED svars

\* _execute_commands, lines 163-181: the try branch runs to its end
ExecCommand ==
    /\ pc = "exec"
    /\ \E end \in (IF connected THEN DeviceEnds ELSE {"prompt"}) :
       \E size \in (IF connected THEN EndSizes(end) ELSE {0}) :
       \E io \in IOOutcomes(bm.output_buffer) :
         LET cmd == commands[i]
             res == execute_command(protocol, connected, end, size)
             block == format_command_output(i, cmd, res.output, res.success)
             r == add_data(bm, files, clock, io, block)
         IN /\ bm' = r.bm
            /\ files' = r.files
            /\ accepted' = IF r.ret THEN Append(accepted, block) ELSE accepted
            /\ io_failed' = (io_failed \/ r.io_error)
            /\ stats' = count_command(stats, FALSE, r.ret)
            /\ log' = Append(log,
                 [index |-> i, cmd |-> cmd,
                  end |-> IF connected THEN end ELSE "not_connected",
                  raised |-> FALSE, success |-> res.success,
                  result |-> res.output, block |-> block, added |-> r.ret,
                  sent |-> connected /\ end # "send_error",
                  before |-> stats, after |-> stats'])
    /\ i' = next_command(i)
    /\ pc' = "loop"
    /\ UNCHANGED <<clock, protocol, commands, is_running, connected, finished,
                   last, connect_ok, broke>>
    /\ UNCHANGED rvars
    /\ UNCHANGED nvars
    /\ UNCHANGED svars

\* _execute_commands, lines 183-187: an exception raised in the try branch
\* before add_data returned (by execute_command or format_command_output)
\* reaches the except branch
ExecRaise ==
    /\ pc = "exec"
    /\ \E io \in IOOutcomes(bm.output_buffer) :
         LET cmd == commands[i]
             block == format_command_output(i, cmd, ExceptionText, FALSE)
             r == add_data(bm, files, clock, io, block)
         IN /\ bm' = r.bm
            /\ files' = r.files
            /\ accepted' = IF r.ret THEN Append(accepted, block) ELSE accepted
            /\ io_failed' = (io_failed \/ r.io_error)
            /\ stats' = count_command(stats, TRUE, FALSE)
            /\ log' = Append(log,
                 [index |-> i, cmd |-> cmd, end |-> "exception",
                  raised |-> TRUE, success |-> FALSE,
                  result |-> ExceptionText, block |-> block, added |-> r.ret,
                  sent |-> FALSE,
                  before |-> stats, after |-> stats'])
    /\ i' = next_command(i)
    /\ pc' = "loop"
    /\ UNCHANGED <<clock, protocol, commands, is_running, connected, finished,
                   last, connect_ok, broke>>
    /\ UNCHANGED rvars
    /\ UNCHANGED nvars
    /\ UNCHANGED svars

\* run, lines 79-81, and _finalize: close the connection, finalize the
\* BufferManager, emit finished_signal
Finalize ==
    /\ pc = "finalize"
    /\ \E io \in IOOutcomes(bm.output_buffer) : \E create_ok \in BOOLEAN :
         LET r == finalize(bm, files, clock, io, create_ok)
         IN /\ bm' = r.bm
            /\ files' = r.files
            /\ io_failed' = (io_failed \/ r.io_error)
            /\ finished' =
                 [emitted |-> TRUE,
                  filepath |-> IF r.filepath = NoPath
                               THEN TimestampPath(clock) ELSE r.filepath,
                  success |-> TRUE,
                  total_commands |-> stats.total_commands,
                  completed_commands |-> stats.completed_commands,
                  failed_commands |-> stats.failed_commands,
                  total_bytes |-> r.total_bytes]
    /\ connected' = FALSE
    /\ pc' = "done"
    /\ events' = events \o <<SetupEvent("close"), SetupEvent("finalize"),
                              FinishedEvent>>
    /\ UNCHANGED <<clock, protocol, commands, i, is_running, stats, accepted,
                   last, log, connect_ok, broke>>
    /\ UNCHANGED rvars
    /\ UNCHANGED <<last_error_code, params, transport, call>>
    /\ UNCHANGED svars

\* stop(), called from another thread while the run is going on
Stop ==
    /\ pc # "done"
    /\ is_running
    /\ is_running' = FALSE
    /\ connected' = FALSE
    /\ UNCHANGED <<bm, files, clock, protocol, commands, pc, i, stats,
                   finished, accepted, io_failed, last, log, connect_ok,
                   broke>>
    /\ UNCHANGED rvars
    /\ UNCHANGED nvars
    /\ UNCHANGED svars

Next ==
    \/ Connect
    \/ LoopExit
    \/ LoopBreak
    \/ StartCommand
    \/ ExecCommand
    \/ ExecRaise
    \/ Finalize
    \/ Stop
    \/ Tick

Spec == Init /\ [][Next]_vars

\* a run over a command file of MaxCmds commands
InitFair ==
    \E proto \in {"ssh", "telnet"} :
        InitFor([k \in 1 .. MaxCmds |->
                    IF k % 2 = 1 THEN "show version" ELSE "show clock"],
                proto)

\* the steps of the worker thread (QThread.run)
Worker ==
    \/ Connect
    \/ LoopExit
    \/ LoopBreak
    \/ StartCommand
    \/ ExecCommand
    \/ ExecRaise
    \/ Finalize

\* a started worker thread keeps running: every call it makes returns or
\* raises (connect and each read have a timeout), so whenever the thread has
\* a next step it takes one
SpecFair == InitFair /\ [][Next]_vars /\ WF_vars(Worker)

\* ------------------------------------------- SpecRun: run() from its start
\* the groups of s between the separators sep (str.split)
RECURSIVE SplitOn(_, _)
SplitOn(s, sep) ==
    IF \A k \in DOMAIN s : s[k] # sep THEN <<s>>
    ELSE LET k == CHOOSE n \in DOMAIN s :
                     s[n] = sep /\ \A j \in 1 .. (n - 1) : s[j] # sep
         IN <<SubSeq(s, 1, k - 1)>> \o SplitOn(SubSeq(s, k + 1, Len(s)), sep)

\* \d
Digits == {"0", "1", "2", "5", "9"}

\* re.match(r'^\d{1,3}(\.\d{1,3}){3}$', ip): four groups of one to three
\* digits; "$" also matches before a final line feed
ip_format_ok(ip) ==
    LET t == IF ip # <<>> /\ ip[Len(ip)] = "\n"
             THEN SubSeq(ip, 1, Len(ip) - 1) ELSE ip
        g == SplitOn(t, ".")
    IN /\ Len(g) = 4
       /\ \A k \in 1 .. 4 :
            /\ Len(g[k]) \in 1 .. 3
            /\ \A j \in DOMAIN g[k] : g[k][j] \in Digits

\* validate_connection_params stopping at the first violated rule
validate_first_error_only(proto, p) ==
    IF proto \notin {"ssh", "telnet"} THEN <<"protocol">>
    ELSE IF p.ip = <<>> THEN <<"ip_empty">>
    ELSE IF ~ip_format_ok(p.ip) THEN <<"ip_format">>
    ELSE IF p.port < 1 \/ p.port > 65535 THEN <<"port">>
    ELSE IF p.username = "" THEN <<"username">>
    ELSE IF p.password = "" THEN <<"password">>
    ELSE <<>>

\* ConnectionUtils.validate_connection_params: the list 'errors', each
\* message named by its rule
validate_connection_params(proto, p) ==
    (IF proto \notin {"ssh", "telnet"} THEN <<"protocol">> ELSE <<>>)
    \o (IF p.ip = <<>> THEN <<"ip_empty">>
        ELSE IF ~ip_format_ok(p.ip) THEN <<"ip_format">>
        ELSE <<>>)
    \o (IF p.port < 1 \/ p.port > 65535 THEN <<"port">> ELSE <<>>)
    \o (IF p.username = "" THEN <<"username">> ELSE <<>>)
    \o (IF p.password = "" THEN <<"password">> ELSE <<>>)

\* the ip addresses tried: the text of the address field, character by
\* character
IPs ==
    {<<>>,
     <<"1", ".", "1", ".", "1", ".", "1">>,
     <<"9", "9", "9", ".", "1", ".", "1", ".", "1">>,
     <<"1", ".", "1", ".", "1">>,
     <<"1", ".", "1", ".", "1", ".", "1", ".", "1">>,
     <<"1", ".", ".", "1", ".", "1">>,
     <<"a", ".", "1", ".", "1", ".", "1">>,
     <<"1", "1", "1", "1", ".", "1", ".", "1", ".", "1">>}

\* the parameters tried
Params ==
    [ip : IPs, port : {0, 22, 65536}, username : {"", "admin"},
     password : {"", "secret"}]

\* run, lines 57-65: the validation; with errors, error_signal("validation")
\* is emitted and run returns
Validate ==
    /\ pc = "init"
    /\ LET errors == validate_connection_params(protocol, params)
       IN /\ call' = [fn |-> "validate_connection_params",
                      arg |-> <<protocol, params>>, res |-> errors]
          /\ IF errors = <<>>
             THEN /\ pc' = "start"
                  /\ events' = events
             ELSE /\ pc' = "rejected"
                  /\ events' = Append(events, ErrorEvent("validation", ""))
    /\ UNCHANGED <<bm, files, clock, protocol, commands, i, is_running,
                   connected, stats, finished, accepted, io_failed, last, log,
                   connect_ok, broke>>
    /\ UNCHANGED rvars
    /\ UNCHANGED <<last_error_code, params, transport>>
    /\ UNCHANGED svars

\* a worker constructed with any parameters and a one-command list
InitRun ==
    \E proto \in {"ssh", "telnet", "ftp"} : \E p \in Params :
        InitWith(<<"show clock">>, proto, p, "init")

NextRun == Validate \/ Next

SpecRun == InitRun /\ [][NextRun]_vars

\* ------------------------------------------ SpecReader: one command's read
\* _read_until_prompt, lines 356-362, and _read_output, lines 398-410: the
\* text returned when the loop was left, made of the chunks in b, with the
\* marker when the byte counter t reached the cap
reader_text(b, t) ==
    [text |-> "device",
     marker |-> IF t >= CapChunks THEN "truncated" ELSE "none",
     chunks |-> b]

\* the outer except of both readers: f"读取错误: {str(e)}"
ReadErrorText == [text |-> "read_error", marker |-> "none", chunks |-> <<>>]

\* execute_command without a connection: "SSH连接未建立" / "Telnet连接未建立"
NotConnectedText ==
    [text |-> "not_connected", marker |-> "none", chunks |-> <<>>]

\* execute_command up to the first pass of the reader: the connection
\* check, the send of the command, the reader's initialisation
Send ==
    /\ pc = "exec"
    /\ rpc = "idle"
    /\ IF connected
       THEN /\ rpc' = "loop"
            /\ output' = output
       ELSE /\ rpc' = "returned"
            /\ output' = NotConnectedText
    /\ rg' = IF connected THEN rg ELSE [rg EXCEPT !.via = "not_connected"]
    /\ UNCHANGED <<now, buf, total, last_data_ts, received>>
    /\ UNCHANGED <<bm, files, clock, accepted, io_failed, last, wvars>>
    /\ UNCHANGED nvars
    /\ UNCHANGED probes
    /\ UNCHANGED sess

\* after_chunk returning by the prompt path whether the tail matches or not
after_chunk_ignore_match(t, match) ==
    IF t >= CapChunks THEN "cap" ELSE "prompt"

\* what the pass does after a chunk was appended (ssh 321-342, telnet
\* 353-372): t is the byte counter, match whether the tail matches the
\* prompt pattern.  cap: leave the loop at the cap; prompt: absorb the
\* residue and leave the loop; loop: next pass
after_chunk(t, match) ==
    IF t >= CapChunks THEN "cap" ELSE IF match THEN "prompt" ELSE "loop"

\* probe_due without the idle window
probe_due_always(t, since) == TRUE

\* "time.time() - last_data_ts >= idle_window" (ssh 345, telnet 375)
probe_due(t, since) == t - since >= IdleWindow

\* one pass of the main loop in which the transport hands over a chunk
\* (ssh 311-342, telnet 334-372).  match: the tail matches the prompt
\* pattern after this chunk; more: Telnet's read_very_eager for the prompt
\* line's residue finds a further chunk.
RecvData ==
    /\ rpc = "loop"
    /\ connected
    /\ now < Timeout
    /\ \E match \in BOOLEAN : \E more \in BOOLEAN :
         LET b1 == Append(buf, received + 1)
             t1 == total + 1
             nxt == after_chunk(t1, match)
         IN /\ total' = t1
            /\ last_data_ts' = now + 1
            /\ rg' = [rg EXCEPT
                        !.last_recv = now,
                        !.matched = match,
                        !.match_at = IF nxt = "prompt" THEN now ELSE @,
                        !.absorbed = IF nxt = "prompt" /\ more
                                        /\ protocol = "telnet"
                                     THEN 1 ELSE 0,
                        !.via = IF nxt = "cap" THEN "cap"
                                ELSE IF nxt = "prompt" /\ protocol = "telnet"
                                THEN "prompt" ELSE @]
            /\ IF nxt = "cap"
               THEN /\ buf' = b1
                    /\ received' = received + 1
                    /\ rpc' = "returned"
                    /\ output' = reader_text(b1, t1)
               ELSE IF nxt = "prompt" /\ protocol = "ssh"
               THEN /\ buf' = b1
                    /\ received' = received + 1
                    /\ rpc' = "residue"
                    /\ output' = output
               ELSE IF nxt = "prompt"
               THEN /\ buf' = IF more THEN Append(b1, received + 2) ELSE b1
                    /\ received' = IF more THEN received + 2
                                   ELSE received + 1
                    /\ rpc' = "returned"
                    /\ output' = reader_text(buf', t1)
               ELSE /\ buf' = b1
                    /\ received' = received + 1
                    /\ rpc' = "loop"
                    /\ output' = output
    /\ now' = now + 1
    /\ UNCHANGED <<bm, files, clock, accepted, io_failed, last, wvars>>
    /\ UNCHANGED nvars
    /\ UNCHANGED probes
    /\ UNCHANGED sess

\* one pass of the main loop without data (ssh 343-354, telnet 373-395):
\* after idle_window without data a "\r" is sent as a probe and the idle
\* clock is reset, otherwise the pass sleeps.  Telnet reads the answer to
\* its probe at once: probe is whether there is one, match whether the tail
\* then matches the prompt pattern.
Idle ==
    /\ rpc = "loop"
    /\ connected
    /\ now < Timeout
    /\ IF probe_due(now, last_data_ts)
       THEN /\ last_data_ts' = now + 1
            /\ probes' = probes + 1
            /\ IF protocol = "telnet"
               THEN \E probe \in BOOLEAN : \E match \in BOOLEAN :
                      IF probe
                      THEN /\ buf' = Append(buf, received + 1)
                           /\ received' = received + 1
                           /\ total' = total + 1
                           /\ rg' = [rg EXCEPT
                                       !.last_probe = now,
                                       !.last_recv = now,
                                       !.matched = match,
                                       !.via = IF match THEN "probe" ELSE @]
                           /\ IF match
                              THEN /\ rpc' = "returned"
                                   /\ output' = reader_text(buf', total')
                              ELSE /\ rpc' = "loop"
                                   /\ output' = output
                      ELSE /\ rg' = [rg EXCEPT !.last_probe = now]
                           /\ UNCHANGED <<buf, received, total, rpc, output>>
               ELSE /\ rg' = [rg EXCEPT !.last_probe = now]
                    /\ UNCHANGED <<buf, received, total, rpc, output>>
       ELSE UNCHANGED <<last_data_ts, buf, received, total, rpc, output,
                         probes, rg>>
    /\ now' = now + 1
    /\ UNCHANGED <<bm, files, clock, accepted, io_failed, last, wvars>>
    /\ UNCHANGED nvars
    /\ UNCHANGED sess

\* the while condition of the main loop fails: time.time() - start >= timeout
Deadline ==
    /\ rpc = "loop"
    /\ now >= Timeout
    /\ rpc' = "returned"
    /\ output' = reader_text(buf, total)
    /\ rg' = [rg EXCEPT !.via = "deadline"]
    /\ UNCHANGED <<now, buf, total, last_data_ts, received>>
    /\ UNCHANGED <<bm, files, clock, accepted, io_failed, last, wvars>>
    /\ UNCHANGED nvars
    /\ UNCHANGED probes
    /\ UNCHANGED sess

\* SSH, lines 330-342: one pass of "while self.channel.recv_ready()" after
\* the prompt matched.  ready: the channel has a further chunk, which goes
\* to buf (total is not changed); otherwise the loop ends and the reader
\* returns.  With self.channel set to None the AttributeError is caught by
\* the inner except and the reader returns what it has.
Residue ==
    /\ rpc = "residue"
    /\ IF connected
       THEN \E ready \in BOOLEAN :
              IF ready
              THEN /\ now < MaxTime
                   /\ buf' = Append(buf, received + 1)
                   /\ received' = received + 1
                   /\ now' = now + 1
                   /\ rg' = [rg EXCEPT !.absorbed = @ + 1]
                   /\ UNCHANGED <<rpc, output>>
              ELSE /\ rpc' = "returned"
                   /\ output' = reader_text(buf, total)
                   /\ rg' = [rg EXCEPT !.via = "prompt"]
                   /\ UNCHANGED <<buf, received, now>>
       ELSE /\ rpc' = "returned"
            /\ output' = reader_text(buf, total)
            /\ rg' = [rg EXCEPT !.via = "prompt"]
            /\ UNCHANGED <<buf, received, now>>
    /\ UNCHANGED <<total, last_data_ts>>
    /\ UNCHANGED <<bm, files, clock, accepted, io_failed, last, wvars>>
    /\ UNCHANGED nvars
    /\ UNCHANGED probes
    /\ UNCHANGED sess

\* one pass of the main loop after close() set self.channel / self.tn to
\* None.  SSH: self.channel.recv_ready() raises AttributeError, the outer
\* except returns "读取错误: ..." (lines 311, 363-364).  Telnet: select on
\* the closed descriptor, read_some, write and read_very_eager all raise
\* inside their own try blocks (lines 326-342, 376-391), so the pass has no
\* data and the loop goes on.
ClosedPass ==
    /\ rpc = "loop"
    /\ ~connected
    /\ now < Timeout
    /\ IF protocol = "ssh"
       THEN /\ rpc' = "returned"
            /\ output' = ReadErrorText
            /\ rg' = [rg EXCEPT !.via = "error"]
            /\ UNCHANGED <<now, last_data_ts>>
       ELSE /\ rpc' = "loop"
            /\ output' = output
            /\ rg' = rg
            /\ now' = now + 1
            /\ last_data_ts' = IF now - last_data_ts >= IdleWindow
                               THEN now + 1 ELSE last_data_ts
    /\ UNCHANGED <<buf, total, received>>
    /\ UNCHANGED <<bm, files, clock, accepted, io_failed, last, wvars>>
    /\ UNCHANGED nvars
    /\ UNCHANGED probes
    /\ UNCHANGED sess

\* SSHConnection.chunk_size: the bytes of one chunk
chunk_size == 16384

\* the text the reader returned, with its length in bytes: the chunks and
\* the marker of a device text, the message otherwise
reader_output(proto, out) ==
    [text |-> out.text, marker |-> out.marker,
     size |-> CASE out.text = "device" ->
                     Len(out.chunks) * chunk_size
                     + (IF out.marker = "truncated" THEN 33 ELSE 0)
                [] out.text = "not_connected" ->
                     (IF proto = "ssh" THEN 18 ELSE 21)
                [] OTHER -> 40]

\* _execute_commands, lines 176-181 and 160: with the text the reader
\* returned, the block is formatted, handed to add_data and counted, and
\* the loop goes to the next command
Complete ==
    /\ pc = "exec"
    /\ rpc = "returned"
    /\ \E io \in IOOutcomes(bm.output_buffer) :
         LET cmd == commands[i]
             res == reader_output(protocol, output)
             success == output.text # "not_connected"
             block == format_command_output(i, cmd, res, success)
             r == add_data(bm, files, clock, io, block)
         IN /\ bm' = r.bm
            /\ files' = r.files
            /\ accepted' = IF r.ret THEN Append(accepted, block) ELSE accepted
            /\ io_failed' = (io_failed \/ r.io_error)
            /\ stats' = count_command(stats, FALSE, r.ret)
            /\ log' = Append(log,
                 [index |-> i, cmd |-> cmd, end |-> "reader",
                  raised |-> FALSE, success |-> success,
                  result |-> res, block |-> block, added |-> r.ret,
                  sent |-> success,
                  before |-> stats, after |-> stats'])
    /\ i' = next_command(i)
    /\ pc' = "loop"
    /\ UNCHANGED <<clock, protocol, commands, is_running, connected, finished,
                   last, connect_ok, broke>>
    /\ UNCHANGED rvars
    /\ UNCHANGED nvars
    /\ UNCHANGED svars

\* a run with one command
InitReader ==
    \E proto \in {"ssh", "telnet"} : InitFor(<<"show version">>, proto)

NextReader ==
    \/ Connect
    \/ StartCommand
    \/ Send
    \/ RecvData
    \/ Idle
    \/ Deadline
    \/ Residue
    \/ ClosedPass
    \/ Complete
    \/ LoopExit
    \/ LoopBreak
    \/ Finalize
    \/ Stop

SpecReader == InitReader /\ [][NextReader]_vars

\* ---------------------------- SpecConn: a connection object on its own
\* connect(): ok is whether the session is established and the login
\* succeeds.  SSH creates a new client on every call and cleans up on
\* failure; Telnet's retry loop is not entered when the object is already
\* connected, and connect returns False with the object left as it is.
conn_connect(proto, t, ok) ==
    IF proto = "telnet" /\ t.connected
    THEN [t EXCEPT !.ops = Append(@, "connect"), !.raised = FALSE,
                   !.success = FALSE]
    ELSE [t EXCEPT !.client = ok,
                   !.channel = ok /\ proto = "ssh",
                   !.connected = ok,
                   !.ops = Append(@, "connect"), !.raised = FALSE,
                   !.success = ok]

\* close() without the "if self.channel" / "if self.ssh" / "if self.tn"
\* tests and without the try blocks
conn_close_unguarded(proto, t, inner_raises) ==
    IF ~t.client \/ inner_raises
    THEN [t EXCEPT !.ops = Append(@, "close"), !.raised = TRUE,
                   !.success = FALSE]
    ELSE [t EXCEPT !.client = FALSE, !.channel = FALSE,
                   !.connected = FALSE,
                   !.ops = Append(@, "close"), !.raised = FALSE,
                   !.success = FALSE]

\* close(): _cleanup / _cleanup_connection close what is there, swallow
\* what the close of the channel, the client or the socket raises
\* (inner_raises), and set the references to None and connected to False
conn_close(proto, t, inner_raises) ==
    [t EXCEPT !.client = FALSE, !.channel = FALSE, !.connected = FALSE,
              !.ops = Append(@, "close"), !.raised = FALSE,
              !.success = FALSE]

\* execute_command on the object: without a connection it returns
\* (False, "...连接未建立") before anything is sent; send_ok is whether
\* channel.send / tn.write goes through, its exception is caught and
\* returned as (False, message)
conn_execute(proto, t, send_ok) ==
    IF ~t.connected \/ ~t.client \/ (proto = "ssh" /\ ~t.channel)
    THEN [t EXCEPT !.ops = Append(@, "execute"), !.raised = FALSE,
                   !.success = FALSE]
    ELSE [t EXCEPT !.ops = Append(@, "execute"), !.raised = FALSE,
                   !.success = send_ok,
                   !.sent = IF send_ok THEN @ + 1 ELSE @]

ConnConnect ==
    /\ Len(transport.ops) < MaxOps
    /\ \E ok \in BOOLEAN : transport' = conn_connect(protocol, transport, ok)
    /\ UNCHANGED <<bm, files, clock, accepted, io_failed, last, wvars>>
    /\ UNCHANGED rvars
    /\ UNCHANGED <<events, last_error_code, params, call>>
    /\ UNCHANGED svars

ConnClose ==
    /\ Len(transport.ops) < MaxOps
    /\ \E inner_raises \in BOOLEAN :
         transport' = conn_close(protocol, transport, inner_raises)
    /\ UNCHANGED <<bm, files, clock, accepted, io_failed, last, wvars>>
    /\ UNCHANGED rvars
    /\ UNCHANGED <<events, last_error_code, params, call>>
    /\ UNCHANGED svars

ConnExecute ==
    /\ Len(transport.ops) < MaxOps
    /\ \E send_ok \in BOOLEAN :
         transport' = conn_execute(protocol, transport, send_ok)
    /\ UNCHANGED <<bm, files, clock, accepted, io_failed, last, wvars>>
    /\ UNCHANGED rvars
    /\ UNCHANGED <<events, last_error_code, params, call>>
    /\ UNCHANGED svars

InitConn == \E proto \in {"ssh", "telnet"} : InitFor(<<>>, proto)

NextConn ==
    \/ ConnConnect
    \/ ConnClose
    \/ ConnExecute

SpecConn == InitConn /\ [][NextConn]_vars

\* ------------------------------ SpecSession: the exchanges of one session
\* SpecSession follows one session after connect() succeeded: the setup
\* commands, Telnet's prompt detection, and the commands of the list, each
\* as an exchange with a device that answers its inputs in order.  What the
\* device has emitted travels (flight) before the reader can read it
\* (ready); the device and the network take their steps between those of
\* the worker.  A piece of device output is [of, n, part]: the answer to
\* setup command n, to command n, to a bare CR ("cr") or to the empty line
\* of the prompt detection ("nl"); part is the text ("out") or the prompt
\* that ends it.
NewSession ==
    [NoSession EXCEPT !.phase = "setup", !.k = 1, !.rd = "send"]

Piece(of, n, part) == [of |-> of, n |-> n, part |-> part]

\* what the device emits for one input: a setup command it accepts is
\* answered by the prompt, one it rejects by an error text and the prompt; a
\* command by its output and the prompt; a bare CR and an empty line by the
\* prompt
Response(x, reject) ==
    CASE x.of = "setup" /\ ~reject -> <<Piece("setup", x.n, "prompt")>>
      [] x.of \in {"setup", "cmd"} ->
            <<Piece(x.of, x.n, "out"), Piece(x.of, x.n, "prompt")>>
      [] OTHER -> <<Piece(x.of, x.n, "prompt")>>

\* the tail of what was read matches the prompt pattern: it ends in a prompt
EndsWithPrompt(pieces) ==
    pieces # <<>> /\ pieces[Len(pieces)].part = "prompt"

\* the kind of input the exchange of a phase sends
InputOf(phase) ==
    CASE phase = "setup" -> "setup"
      [] phase = "detect" -> "nl"
      [] OTHER -> "cmd"

\* the exchange after the one that returned: the next setup command, then
\* (Telnet) the prompt detection, then the commands of the list
next_exchange(proto, s, ncmds) ==
    CASE s.phase = "setup" /\ s.k < MaxSetup ->
            [s EXCEPT !.k = @ + 1, !.tried = @ + 1, !.rd = "send"]
      [] s.phase = "setup" ->
            [s EXCEPT !.phase = IF proto = "telnet" THEN "detect"
                                ELSE "commands",
                      !.k = 1, !.tried = @ + 1, !.rd = "send"]
      [] s.phase = "detect" ->
            [s EXCEPT !.phase = "commands", !.k = 1, !.rd = "send"]
      [] s.k < ncmds ->
            [s EXCEPT !.k = @ + 1, !.rd = "send",
                      !.blocks = Append(@, [cmd |-> s.k, via |-> s.via,
                                            items |-> s.got])]
      [] OTHER ->
            [s EXCEPT !.phase = "done", !.rd = "none",
                      !.blocks = Append(@, [cmd |-> s.k, via |-> s.via,
                                            items |-> s.got])]

\* connect() returned True: the session starts with the setup commands
\* (_prepare_ssh_terminal, _setup_terminal)
Open ==
    /\ sess.phase = "none"
    /\ sess' = NewSession
    /\ UNCHANGED <<bm, files, clock, accepted, io_failed, last, wvars>>
    /\ UNCHANGED rvars
    /\ UNCHANGED nvars
    /\ UNCHANGED rg

\* the start of an exchange.  execute_command (SSH setup commands and all
\* commands) drains what is ready and sends the command; _setup_terminal
\* writes the setup command; _detect_prompt_pattern, after the last
\* read_very_eager of _setup_terminal, writes an empty line.  raises: the
\* send of a setup command raises, which execute_command (SSH) and
\* _setup_terminal (Telnet) catch.
SendExchange ==
    /\ sess.phase \in {"setup", "detect", "commands"}
    /\ sess.rd = "send"
    /\ \E raises \in (IF sess.phase = "setup" THEN BOOLEAN ELSE {FALSE}) :
         IF raises
         THEN sess' = [sess EXCEPT !.rd = "returned", !.via = "exception",
                                   !.got = <<>>,
                                   !.ready = IF protocol = "ssh" THEN <<>>
                                             ELSE @]
         ELSE sess' = [sess EXCEPT
                 !.ready = IF protocol = "telnet" /\ sess.phase = "setup"
                           THEN @ ELSE <<>>,
                 !.inq = Append(@, [of |-> InputOf(sess.phase),
                                    n |-> sess.k]),
                 !.got = <<>>, !.waited = 0, !.via = "none",
                 !.rd = IF protocol = "telnet" /\ sess.phase # "commands"
                        THEN "eager" ELSE "read"]
    /\ UNCHANGED <<bm, files, clock, accepted, io_failed, last, wvars>>
    /\ UNCHANGED rvars
    /\ UNCHANGED nvars
    /\ UNCHANGED rg

\* Telnet: the read_very_eager after the sleep of a setup command (line
\* 213) and the reads of the prompt detection (lines 236-245): what is
\* ready is taken and not kept
EagerRead ==
    /\ sess.rd = "eager"
    /\ sess' = [sess EXCEPT !.ready = <<>>, !.rd = "returned",
                            !.via = "eager"]
    /\ UNCHANGED <<bm, files, clock, accepted, io_failed, last, wvars>>
    /\ UNCHANGED rvars
    /\ UNCHANGED nvars
    /\ UNCHANGED rg

\* a pass of the reader that finds data: everything ready is appended, and
\* when the tail then matches the prompt the reader goes on to the residue
SessRecv ==
    /\ sess.rd = "read"
    /\ sess.ready # <<>>
    /\ sess' = [sess EXCEPT !.got = @ \o sess.ready, !.ready = <<>>,
                            !.rd = IF EndsWithPrompt(sess.ready)
                                   THEN "residue" ELSE "read"]
    /\ UNCHANGED <<bm, files, clock, accepted, io_failed, last, wvars>>
    /\ UNCHANGED rvars
    /\ UNCHANGED nvars
    /\ UNCHANGED rg

\* after the grace sleep: what has become ready is appended and the reader
\* returns
SessResidue ==
    /\ sess.rd = "residue"
    /\ sess' = [sess EXCEPT !.got = @ \o sess.ready, !.ready = <<>>,
                            !.rd = "returned", !.via = "prompt"]
    /\ UNCHANGED <<bm, files, clock, accepted, io_failed, last, wvars>>
    /\ UNCHANGED rvars
    /\ UNCHANGED nvars
    /\ UNCHANGED rg

\* an idle window passes without data: the reader sends a bare CR and goes
\* on reading (what the CR is answered with is read by a later pass)
SessProbe ==
    /\ sess.rd = "read"
    /\ sess.ready = <<>>
    /\ sess.waited < SessTimeout
    /\ sess' = [sess EXCEPT !.waited = @ + 1,
                            !.inq = Append(@, [of |-> "cr", n |-> sess.k])]
    /\ UNCHANGED <<bm, files, clock, accepted, io_failed, last, wvars>>
    /\ UNCHANGED rvars
    /\ UNCHANGED nvars
    /\ UNCHANGED rg

\* the deadline of the read passes
SessDeadline ==
    /\ sess.rd = "read"
    /\ sess.waited >= SessTimeout
    /\ sess' = [sess EXCEPT !.rd = "returned", !.via = "deadline"]
    /\ UNCHANGED <<bm, files, clock, accepted, io_failed, last, wvars>>
    /\ UNCHANGED rvars
    /\ UNCHANGED nvars
    /\ UNCHANGED rg

\* the exchange is over: what a setup command or the prompt detection read
\* is dropped, what a command read becomes its block (_execute_commands,
\* lines 176-177), and the next exchange starts
FinishExchange ==
    /\ sess.phase \in {"setup", "detect", "commands"}
    /\ sess.rd = "returned"
    /\ sess' = next_exchange(protocol, sess, Len(commands))
    /\ UNCHANGED <<bm, files, clock, accepted, io_failed, last, wvars>>
    /\ UNCHANGED rvars
    /\ UNCHANGED nvars
    /\ UNCHANGED rg

\* the device answers the oldest input it has not answered yet
DevEmit ==
    /\ sess.phase \in {"setup", "detect", "commands"}
    /\ sess.inq # <<>>
    /\ \E reject \in (IF Head(sess.inq).of = "setup" THEN BOOLEAN
                      ELSE {FALSE}) :
         sess' = [sess EXCEPT
                    !.inq = Tail(@),
                    !.flight = @ \o Response(Head(sess.inq), reject)]
    /\ UNCHANGED <<bm, files, clock, accepted, io_failed, last, wvars>>
    /\ UNCHANGED rvars
    /\ UNCHANGED nvars
    /\ UNCHANGED rg

\* the oldest piece on its way reaches the reader's side
Arrive ==
    /\ sess.phase \in {"setup", "detect", "commands"}
    /\ sess.flight # <<>>
    /\ sess' = [sess EXCEPT !.flight = Tail(@),
                            !.ready = Append(@, Head(sess.flight))]
    /\ UNCHANGED <<bm, files, clock, accepted, io_failed, last, wvars>>
    /\ UNCHANGED rvars
    /\ UNCHANGED nvars
    /\ UNCHANGED rg

\* a session with a list of two commands
InitSession ==
    \E proto \in {"ssh", "telnet"} :
        InitFor(<<"show version", "show clock">>, proto)

NextSession ==
    \/ Open
    \/ SendExchange
    \/ EagerRead
    \/ SessRecv
    \/ SessResidue
    \/ SessProbe
    \/ SessDeadline
    \/ FinishExchange
    \/ DevEmit
    \/ Arrive

SpecSession == InitSession /\ [][NextSession]_vars

\* ------------------------------------- SpecFn: the functions on their own
\* SpecFn applies one function of the program to one argument at a time;
\* call holds the function, the argument and the result.

\* the characters of a buffer, one for each class the fallback pattern tells
\* apart: a line break ([\r\n]), a character of [\w\-\.:/@], one of [#>$%],
\* a blank (\s other than a line break), any other character
LineBreak == "\n"
TokenChar == "r"
PromptMark == "#"
Blank == " "
OtherChar == "<"
BufferChars == {LineBreak, TokenChar, PromptMark, Blank, OtherChar}

\* \s
Whitespace == {LineBreak, Blank}

\* all sequences over chars of at most n characters
SeqsUpTo(chars, n) == UNION {[1 .. k -> chars] : k \in 0 .. n}

\* the fallback pattern without the "$": the prompt may be followed by
\* anything
fallback_search_unanchored(b) ==
    \E k \in DOMAIN b : \E m \in (k + 1) .. (Len(b) - 1) :
        /\ b[k] = LineBreak
        /\ \A j \in (k + 1) .. m : b[j] = TokenChar
        /\ b[m + 1] = PromptMark

\* re.compile(rb'[\r\n][\w\-\.:/@]+[#>$%]\s*$').search(b): at some position
\* k a line break, then the characters k+1..m of the token, the mark at
\* m+1, and whitespace from there to the end
fallback_search(b) ==
    \E k \in DOMAIN b : \E m \in (k + 1) .. (Len(b) - 1) :
        /\ b[k] = LineBreak
        /\ \A j \in (k + 1) .. m : b[j] = TokenChar
        /\ b[m + 1] = PromptMark
        /\ \A j \in (m + 2) .. Len(b) : b[j] \in Whitespace

\* _detect_prompt, lines 255-259, and _detect_prompt_pattern, lines 263-271:
\* the fallback pattern applied to a buffer
ApplyFallback ==
    /\ call.fn = "none"
    /\ \E b \in SeqsUpTo(BufferChars, MaxBuf) :
         call' = [fn |-> "fallback_search", arg |-> b,
                  res |-> fallback_search(b)]
    /\ UNCHANGED <<bm, files, clock, accepted, io_failed, last, wvars>>
    /\ UNCHANGED rvars
    /\ UNCHANGED <<events, last_error_code, params, transport>>
    /\ UNCHANGED svars

\* the characters of a text: an ordinary character, the command (a
\* one-character command), a blank, CR, LF, NUL
CR == "\r"
LF == "\n"
NUL == "NUL"
TheCmd == <<"c">>
TextChars == {"a", "c", " ", CR, LF, NUL}
Texts == SeqsUpTo(TextChars, MaxText)

\* s.replace("\r\n", "\n").replace("\r", "\n")
RECURSIVE NormalizeNewlines(_)
NormalizeNewlines(s) ==
    IF s = <<>> THEN <<>>
    ELSE IF s[1] = CR /\ Len(s) >= 2 /\ s[2] = LF
    THEN <<LF>> \o NormalizeNewlines(SubSeq(s, 3, Len(s)))
    ELSE IF s[1] = CR THEN <<LF>> \o NormalizeNewlines(Tail(s))
    ELSE <<s[1]>> \o NormalizeNewlines(Tail(s))

\* str.splitlines of a text whose line breaks are LF: the groups between
\* the line feeds, without an empty group after the last one
SplitLF(s) ==
    LET g == SplitOn(s, LF)
    IN IF g[Len(g)] = <<>> THEN SubSeq(g, 1, Len(g) - 1) ELSE g

\* str.splitlines: CR, LF and CRLF each end a line
splitlines(s) == SplitLF(NormalizeNewlines(s))

\* "\n".join(lines)
RECURSIVE join(_)
join(lines) ==
    IF lines = <<>> THEN <<>>
    ELSE IF Len(lines) = 1 THEN lines[1]
    ELSE lines[1] \o <<LF>> \o join(Tail(lines))

\* str.strip of a line (a line holds no line break)
RECURSIVE strip(_)
strip(ln) ==
    IF ln # <<>> /\ ln[1] = " " THEN strip(Tail(ln))
    ELSE IF ln # <<>> /\ ln[Len(ln)] = " "
    THEN strip(SubSeq(ln, 1, Len(ln) - 1))
    ELSE ln

\* str.endswith
endswith(h, t) ==
    Len(h) >= Len(t) /\ SubSeq(h, Len(h) - Len(t) + 1, Len(h)) = t

\* "while lines and lines[0].strip() == '': lines.pop(0)"
RECURSIVE DropLeadingBlank(_)
DropLeadingBlank(lines) ==
    IF lines # <<>> /\ strip(lines[1]) = <<>>
    THEN DropLeadingBlank(Tail(lines)) ELSE lines

\* format_command_output that leaves CR alone and splits at LF only
format_command_output_text_lf_only(command, text) ==
    LET cmd == strip(command)
        out == SelectSeq(text, LAMBDA x : x # NUL)
        lines == DropLeadingBlank(SplitLF(out))
        body == IF lines # <<>> /\ (strip(lines[1]) = cmd
                                    \/ endswith(strip(lines[1]), cmd))
                THEN Tail(lines) ELSE lines
    IN cmd \o <<LF>> \o join(body) \o <<LF, LF>>

\* format_command_output that removes the first non-blank line whatever
\* it holds
format_command_output_text_drop_head(command, text) ==
    LET cmd == strip(command)
        out == NormalizeNewlines(SelectSeq(text, LAMBDA x : x # NUL))
        lines == DropLeadingBlank(splitlines(out))
        body == IF lines # <<>> THEN Tail(lines) ELSE lines
    IN cmd \o <<LF>> \o join(body) \o <<LF, LF>>

\* ConnectionUtils.format_command_output on the characters of the command
\* and of the text: the block "<cmd>\n<out>\n\n"
format_command_output_text(command, text) ==
    LET cmd == strip(command)
        out == NormalizeNewlines(SelectSeq(text, LAMBDA x : x # NUL))
        lines == DropLeadingBlank(splitlines(out))
        body == IF lines # <<>> /\ (strip(lines[1]) = cmd
                                    \/ endswith(strip(lines[1]), cmd))
                THEN Tail(lines) ELSE lines
    IN cmd \o <<LF>> \o join(body) \o <<LF, LF>>

\* _read_until_prompt, lines 356-359: NUL removed, re.sub(r'\r+\n', '\n')
\* removes the CRs before a LF, replace('\r', '') the others
ssh_normalize(raw) == SelectSeq(raw, LAMBDA x : x # NUL /\ x # CR)

\* _read_output, lines 398-409: the lines that are not blank, joined by LF;
\* the text as it is when there is no such line
telnet_normalize(raw) ==
    LET non_empty == SelectSeq(splitlines(raw),
                               LAMBDA ln : strip(ln) # <<>>)
    IN IF non_empty # <<>> THEN join(non_empty) ELSE raw

\* format_command_output applied to a text
ApplyFormat ==
    /\ call.fn = "none"
    /\ \E t \in Texts :
         call' = [fn |-> "format_command_output", arg |-> t,
                  res |-> format_command_output_text(TheCmd, t)]
    /\ UNCHANGED <<bm, files, clock, accepted, io_failed, last, wvars>>
    /\ UNCHANGED rvars
    /\ UNCHANGED <<events, last_error_code, params, transport>>
    /\ UNCHANGED svars

\* the commands format_command_output is applied to in SpecFn: the command,
\* the command with blanks around it, the empty command
TextCmds == {TheCmd, <<" ", "c", " ">>, <<>>}

\* format_command_output applied to a command and a text
ApplyFormatCommand ==
    /\ call.fn = "none"
    /\ \E c \in TextCmds : \E t \in Texts :
         call' = [fn |-> "format_command_output_cmd",
                  arg |-> [command |-> c, text |-> t],
                  res |-> format_command_output_text(c, t)]
    /\ UNCHANGED <<bm, files, clock, accepted, io_failed, last, wvars>>
    /\ UNCHANGED rvars
    /\ UNCHANGED <<events, last_error_code, params, transport>>
    /\ UNCHANGED svars

\* _execute_commands, lines 169-177: the bytes raw received for a command go
\* through the reader's normalisation and the formatter, over SSH and over
\* Telnet
ApplyPipelines ==
    /\ call.fn = "none"
    /\ \E raw \in Texts :
         call' = [fn |-> "pipelines", arg |-> raw,
                  res |-> [ssh |-> format_command_output_text(
                                       TheCmd, ssh_normalize(raw)),
                           telnet |-> format_command_output_text(
                                       TheCmd, telnet_normalize(raw))]]
    /\ UNCHANGED <<bm, files, clock, accepted, io_failed, last, wvars>>
    /\ UNCHANGED rvars
    /\ UNCHANGED <<events, last_error_code, params, transport>>
    /\ UNCHANGED svars

\* ConnectionUtils.is_large_output_command: the command holds one of the
\* bulk-output patterns ('show version' is one, 'show clock' holds none)
is_large_output_command(cmd) == cmd = "show version"

\* the idle-probe window the reader uses for a command, in tenths of a
\* second: SSHConnection.idle_probe_window is set once in __init__ and
\* execute_command is not given is_large_output; _read_output computes
\* "0.6 if not is_large else 1.2"
idle_window(proto, is_large) ==
    IF proto = "telnet" /\ is_large THEN 12 ELSE 6

\* _execute_commands, lines 165-172: the window of the read of one command
ApplyIdleWindow ==
    /\ call.fn = "none"
    /\ \E proto \in {"ssh", "telnet"} : \E cmd \in Cmds :
         call' = [fn |-> "idle_window", arg |-> <<proto, cmd>>,
                  res |-> idle_window(proto, is_large_output_command(cmd))]
    /\ UNCHANGED <<bm, files, clock, accepted, io_failed, last, wvars>>
    /\ UNCHANGED rvars
    /\ UNCHANGED <<events, last_error_code, params, transport>>
    /\ UNCHANGED svars

\* the reader's buf and tail before the first chunk (ssh 301-302, telnet
\* 302, 313)
NewWindow == [buf |-> <<>>, tail |-> <<>>]

\* append_chunk that trims the tail at its end instead of its front
append_chunk_keep_head(w, data) ==
    LET t == w.tail \o data
    IN [buf |-> w.buf \o data,
        tail |-> IF Len(t) > tail_keep THEN SubSeq(t, 1, tail_keep) ELSE t]

\* buf.extend(data); tail.extend(data); if len(tail) > tail_keep:
\* del tail[:len(tail) - tail_keep] (ssh 316-319 and 336-339, telnet
\* 349-356, 366-369 and 382-387)
append_chunk(w, data) ==
    LET t == w.tail \o data
    IN [buf |-> w.buf \o data,
        tail |-> IF Len(t) > tail_keep
                 THEN SubSeq(t, Len(t) - tail_keep + 1, Len(t)) ELSE t]

\* the chunks received one after the other, appended in that order
RECURSIVE read_chunks(_, _)
read_chunks(w, chunks) ==
    IF chunks = <<>> THEN w
    ELSE read_chunks(append_chunk(w, Head(chunks)), Tail(chunks))

\* the bytes b arriving in chunks that end at the positions in cuts
RECURSIVE ChunksOf(_, _)
ChunksOf(b, cuts) ==
    IF b = <<>> THEN <<>>
    ELSE IF cuts = {} THEN <<b>>
    ELSE LET c == CHOOSE x \in cuts : \A y \in cuts : y <= x
         IN Append(ChunksOf(SubSeq(b, 1, c), cuts \ {c}),
                   SubSeq(b, c + 1, Len(b)))

\* re.compile(re.escape(prompt) + rb'\s*$').search(b): the sampled prompt
\* somewhere in b, and whitespace from there to the end
sampled_search(prompt, b) ==
    \E k \in 1 .. (Len(b) - Len(prompt) + 1) :
        /\ SubSeq(b, k, k + Len(prompt) - 1) = prompt
        /\ \A j \in (k + Len(prompt)) .. Len(b) : b[j] \in Whitespace

\* the prompt sampled at connect in SpecFn: a token and a mark
SampledPrompt == <<TokenChar, PromptMark>>

\* the reader's window after the chunks of one read were appended
ApplyWindow ==
    /\ call.fn = "none"
    /\ \E b \in SeqsUpTo(BufferChars, MaxBuf) :
       \E cuts \in SUBSET (1 .. (Len(b) - 1)) :
         call' = [fn |-> "window", arg |-> ChunksOf(b, cuts),
                  res |-> read_chunks(NewWindow, ChunksOf(b, cuts))]
    /\ UNCHANGED <<bm, files, clock, accepted, io_failed, last, wvars>>
    /\ UNCHANGED rvars
    /\ UNCHANGED <<events, last_error_code, params, transport>>
    /\ UNCHANGED svars

\* what a chunk read during the login holds: an error keyword
\* (error_patterns), a prompt terminator (prompt_patterns), both or neither
ChunkKinds == SUBSET {"error", "prompt"}

\* the keywords and terminators in the chunks, login_data
RECURSIVE Seen(_)
Seen(chunks) ==
    IF chunks = <<>> THEN {} ELSE Head(chunks) \cup Seen(Tail(chunks))

\* TelnetConnection._verify_login: chunks are the chunks read during the
\* 15s window, in order; final is what the read after the window returns
\* (<<>>: nothing).  After each chunk the error keywords are looked for
\* first, then the terminators; after the window only the terminators are.
\* The result is what is returned and the login_data it was decided on.
RECURSIVE _verify_login(_, _, _)
_verify_login(data, chunks, final) ==
    IF chunks = <<>>
    THEN LET login_data == data \cup Seen(final)
         IN [ret |-> "prompt" \in login_data, seen |-> login_data]
    ELSE LET login_data == data \cup Head(chunks)
         IN IF "error" \in login_data
            THEN [ret |-> FALSE, seen |-> login_data]
            ELSE IF "prompt" \in login_data
            THEN [ret |-> TRUE, seen |-> login_data]
            ELSE _verify_login(login_data, Tail(chunks), final)

\* TelnetConnection._perform_login: the login prompt and the password
\* prompt are waited for (10s each), then the login is verified
_perform_login(login_prompt, password_prompt, chunks, final) ==
    IF ~login_prompt \/ ~password_prompt
    THEN [ret |-> FALSE, seen |-> {}]
    ELSE _verify_login({}, chunks, final)

\* TelnetConnection.connect on a new object, the session being opened: one
\* pass of the retry loop (max_retries = 1).  logins counts the calls of
\* _perform_login.
telnet_connect(login_prompt, password_prompt, chunks, final) ==
    LET r == _perform_login(login_prompt, password_prompt, chunks, final)
    IN [ret |-> r.ret, connected |-> r.ret, client |-> r.ret,
        logins |-> 1, seen |-> r.seen]

\* connect() against a device that behaves in one way during the login
ApplyLogin ==
    /\ call.fn = "none"
    /\ \E lp \in BOOLEAN : \E pp \in BOOLEAN :
       \E chunks \in SeqsUpTo(ChunkKinds, MaxChunks) :
       \E final \in SeqsUpTo(ChunkKinds, 1) :
         call' = [fn |-> "telnet_connect",
                  arg |-> [login_prompt |-> lp, password_prompt |-> pp,
                           chunks |-> chunks, final |-> final],
                  res |-> telnet_connect(lp, pp, chunks, final)]
    /\ UNCHANGED <<bm, files, clock, accepted, io_failed, last, wvars>>
    /\ UNCHANGED rvars
    /\ UNCHANGED <<events, last_error_code, params, transport>>
    /\ UNCHANGED svars

InitFn == InitFor(<<>>, "ssh")

NextFn ==
    \/ ApplyFallback
    \/ ApplyFormat
    \/ ApplyPipelines
    \/ ApplyIdleWindow
    \/ ApplyFormatCommand
    \/ ApplyWindow
    \/ ApplyLogin

SpecFn == InitFn /\ [][NextFn]_vars

\* ============================================================== properties
RECURSIVE SumSizes(_)
SumSizes(blocks) ==
    IF blocks = <<>> THEN 0 ELSE Head(blocks).size + SumSizes(Tail(blocks))

Counted(st) == st.completed_commands + st.failed_commands

Terminal == pc = "done"

\* C1 (as stated): once a run has reached its terminal state, after normal
\* completion, a stop signal or a connect failure, completedCommands +
\* failedCommands equals totalCommands.
C1_CountsSumToTotalAtEnd ==
    Terminal => Counted(stats) = stats.total_commands

\* C1 (amended): at the terminal state completedCommands + failedCommands
\* equals the number of commands the loop executed; that number is
\* totalCommands when connect succeeded and the loop was not left by the stop
\* check, is smaller than totalCommands when the loop was left by the stop
\* check, and is 0 when connect failed.
C1_CountsSumToExecutedAtEnd ==
    Terminal =>
        /\ Counted(stats) = Len(log)
        /\ finished.completed_commands + finished.failed_commands = Len(log)
        /\ (connect_ok /\ ~broke) => Len(log) = stats.total_commands
        /\ broke => Len(log) < stats.total_commands
        /\ ~connect_ok => Len(log) = 0

\* C1 witness: a completed run of two commands, one counted as completed and
\* one as failed
C1_Witness ==
    /\ Terminal /\ connect_ok /\ ~broke
    /\ stats.total_commands = 2
    /\ stats.completed_commands = 1
    /\ stats.failed_commands = 1

\* C2: in every reachable state completedCommands + failedCommands <=
\* totalCommands, and each executed command changed the two counters by at
\* most one in total, neither counter ever decreasing.
C2_CountsNeverExceedTotal ==
    /\ Counted(stats) <= stats.total_commands
    /\ \A k \in DOMAIN log :
         /\ Counted(log[k].after) - Counted(log[k].before) \in {0, 1}
         /\ log[k].after.completed_commands >= log[k].before.completed_commands
         /\ log[k].after.failed_commands >= log[k].before.failed_commands

\* C2 witness: a stop signal was given, and the list held a command whose
\* block was accepted and one whose block add_data rejected
C2_Witness ==
    /\ ~is_running
    /\ Len(log) = 2
    /\ log[1].added
    /\ ~log[2].added /\ ~log[2].raised

\* C3: a command whose read ended by timeout comes back with a timeout
\* indication (a failure result or a marker in its text) and is counted as
\* failed, not as completed, with an error block offered to the buffer.
C3_TimeoutCountedFailed ==
    \A k \in DOMAIN log :
        log[k].end = "timeout" =>
            /\ ~log[k].success \/ log[k].result.marker = "timeout"
            /\ log[k].after.failed_commands
                 = log[k].before.failed_commands + 1
            /\ log[k].after.completed_commands
                 = log[k].before.completed_commands
            /\ log[k].block.text # "device"

\* C4: a command for which execute_command returned success = False, or
\* raised, is counted as failed and not as completed.
C4_FailureCountedFailed ==
    \A k \in DOMAIN log :
        (~log[k].success \/ log[k].raised) =>
            /\ log[k].after.failed_commands
                 = log[k].before.failed_commands + 1
            /\ log[k].after.completed_commands
                 = log[k].before.completed_commands

\* C5: the commands are executed once each and in list order, a command is
\* started only when the block of its predecessor has been offered to
\* add_data, and a run that connected and got no stop signal ends with every
\* command of the list executed, whatever failed on the way.
C5_CommandsInListOrder ==
    /\ \A k \in DOMAIN log :
         log[k].index = k /\ log[k].cmd = commands[k]
    /\ Len(log) <= Len(commands)
    /\ pc = "exec" => Len(log) = i - 1
    /\ (Terminal /\ connect_ok /\ is_running) => Len(log) = Len(commands)

\* C5 witness: a finished run without stop signal whose first command raised
\* and whose second came back as a failure result
C5_Witness ==
    /\ Terminal /\ connect_ok /\ is_running
    /\ Len(log) = 2
    /\ log[1].raised
    /\ ~log[2].success /\ ~log[2].raised

\* C6: after finalize, with no file operation having failed, the file at the
\* reported filePath holds exactly the accepted blocks, in acceptance order,
\* each once.
C6_FileHoldsAcceptedBlocks ==
    (Terminal /\ ~io_failed) =>
        /\ finished.filepath \in DOMAIN files
        /\ files[finished.filepath] = accepted

\* C7: the bytes of the blocks add_data accepted never exceed the 50MB cap,
\* and total_bytes is their sum.
C7_TotalWithinCap ==
    /\ bm.total_bytes <= max_output_size
    /\ SumSizes(accepted) = bm.total_bytes

\* C7 witness: add_data has just rejected a block and the accepted bytes are
\* within one output block of the cap
C7_Witness ==
    /\ last.op = "add_data" /\ ~last.ret
    /\ bm.total_bytes + 3 * MB > max_output_size
    /\ Len(accepted) >= 2

\* C8: a rejected add_data leaves total_bytes, buffer_size, the in-memory
\* blocks and the files as they were, and attempts no file operation.
C8_RejectedAddChangesNothing ==
    [][(last'.n = last.n + 1 /\ last'.op = "add_data" /\ ~last'.ret) =>
          /\ bm' = bm
          /\ files' = files
          /\ accepted' = accepted
          /\ io_failed' = io_failed]_vars

\* C8 witness: add_data has just rejected a block while the memory buffer
\* held more than the soft threshold, so that accepting it would have
\* flushed
C8_Witness ==
    /\ last.op = "add_data" /\ ~last.ret
    /\ bm.output_buffer # <<>>
    /\ bm.buffer_size > max_buffer_size

\* C9: all the blocks written during one run are in one file.
C9_OneOutputFile ==
    Cardinality(DOMAIN files) <= 1

\* C10: when finalize is called twice in a row and no file operation fails,
\* the second call returns the filePath of the first and the content of the
\* file is the same.
C10_FinalizeIdempotent ==
    [][(last.op = "finalize" /\ last'.op = "finalize"
            /\ last'.n = last.n + 1 /\ ~io_failed') =>
          /\ last'.filepath = last.filepath
          /\ last'.content = last.content]_vars


\* C11: after add_data accepted a block and no file operation failed, at most
\* max_buffer_size bytes are buffered in memory
C11_BufferWithinSoftThreshold ==
    (last.op = "add_data" /\ last.ret /\ ~io_failed)
        => bm.buffer_size <= max_buffer_size

\* C12: a flush_buffer whose file write fails returns False and leaves the
\* block list, buffer_size and total_bytes as they were; one that succeeds
\* writes the whole block list after what the file held, empties the block
\* list and sets buffer_size to 0; total_bytes is never changed
C12_FlushKeepsBufferOnFailure ==
    [][(last'.n = last.n + 1 /\ last'.op = "flush_buffer") =>
         IF last'.io_error \/ bm.output_buffer = <<>>
         THEN ~last'.ret /\ bm' = bm
         ELSE /\ last'.ret
              /\ bm'.output_buffer = <<>>
              /\ bm'.buffer_size = 0
              /\ bm'.total_bytes = bm.total_bytes
              /\ TimestampPath(clock) \in DOMAIN files'
              /\ files'[TimestampPath(clock)] =
                   (IF TimestampPath(clock) \in DOMAIN files
                    THEN files[TimestampPath(clock)] ELSE <<>>)
                       \o bm.output_buffer]_vars

\* a flush failed with two blocks buffered, and both are still buffered
C12_Witness ==
    /\ last.op = "flush_buffer"
    /\ last.io_error
    /\ ~last.ret
    /\ Len(bm.output_buffer) = 2
    /\ bm.buffer_size = SumSizes(bm.output_buffer)

\* C13 as stated: the path finalize returns names an existing file
C13_FinalizePathExists ==
    last.op = "finalize" => last.filepath \in DOMAIN files

\* C13: the path finalize returns names an existing file, or is the empty
\* path when no file had been written and creating the empty file failed;
\* when no block was accepted and a path is returned, that file is empty
C13_FinalizePathExistsOrEmpty ==
    last.op = "finalize" =>
        /\ last.filepath # NoPath => last.filepath \in DOMAIN files
        /\ last.filepath = NoPath =>
              (last.io_error /\ bm._last_filepath = NoPath)
        /\ (accepted = <<>> /\ last.filepath # NoPath) =>
              files[last.filepath] = <<>>

\* finalize on a BufferManager that never accepted a block created the
\* empty file
C13_Witness ==
    /\ last.op = "finalize"
    /\ accepted = <<>>
    /\ last.filepath # NoPath
    /\ last.filepath \in DOMAIN files
    /\ files[last.filepath] = <<>>
    /\ ~io_failed



\* C16: once is_running is False no command is started and the log of
\* executed commands grows by the command in flight at most; the run that
\* was stopped ends with the connection closed and finished_signal emitted
\* with the counts and the byte total accumulated, the buffer written out;
\* and after the stop the run does end
C16_StopEndsRun ==
    /\ [][~is_running => ~(pc = "loop" /\ pc' = "exec")]_vars
    /\ [][(~is_running /\ pc # "exec") => log' = log]_vars
    /\ [](Terminal /\ ~is_running =>
            /\ ~connected
            /\ finished.emitted
            /\ finished.total_commands = stats.total_commands
            /\ finished.completed_commands = stats.completed_commands
            /\ finished.failed_commands = stats.failed_commands
            /\ Counted(stats) = Len(log)
            /\ finished.total_bytes = SumSizes(accepted)
            /\ (~io_failed => bm.output_buffer = <<>>))
    /\ (~is_running ~> Terminal)

\* a run of two commands that was stopped while the first was in flight:
\* the first finished, the second was never started
C16_Witness ==
    /\ Terminal
    /\ ~is_running
    /\ broke
    /\ Len(commands) = 2
    /\ Len(log) = 1
    /\ finished.emitted
    /\ Counted(stats) = 1

\* C20: when connect() failed, no command is executed or sent, no block is
\* buffered or accepted, and both counters stay 0 up to the end of the run
C20_ConnectFailureRunsNothing ==
    (pc # "start" /\ ~connect_ok) =>
        /\ pc \in {"finalize", "done"}
        /\ log = <<>>
        /\ accepted = <<>>
        /\ bm.output_buffer = <<>>
        /\ bm.total_bytes = 0
        /\ stats.completed_commands = 0
        /\ stats.failed_commands = 0
        /\ (Terminal => (finished.completed_commands = 0
                          /\ finished.failed_commands = 0))

\* a run with two commands whose connect() failed has ended
C20_Witness ==
    /\ Terminal
    /\ ~connect_ok
    /\ Len(commands) = 2
    /\ finished.emitted
    /\ log = <<>>



\* the read of a command is going on
InFlight == rpc \in {"loop", "residue"}

\* C14: without a stop, a read never lasts longer than Timeout + Grace
\* ticks, and the text returned is made of every chunk received, in the
\* order of arrival
C14_ReaderReturnsByDeadline ==
    is_running =>
        /\ InFlight => now <= Timeout + Grace
        /\ rpc = "returned" =>
             (output.text = "device"
              /\ output.chunks = [k \in 1 .. received |-> k])

\* C15: once the reader's byte counter has reached the cap the reader
\* receives nothing more, and the text it returns carries the marker exactly
\* when the counter reached the cap
C15_CapStopsReader ==
    /\ [][(InFlight /\ total >= CapChunks) => received' = received]_vars
    /\ [](rpc = "returned" /\ output.text = "device" =>
            (output.marker = "truncated" <=> total >= CapChunks))

\* C17: a pass of the reader that finds the channel closed returns
C17_ClosedChannelEndsRead ==
    [][(InFlight /\ ~connected) => rpc' = "returned"]_vars

\* C18: a read that received chunks and was ended by stop() closing the
\* connection returns those chunks, as device text
C18_CancelKeepsBytes ==
    (rpc = "returned" /\ ~is_running /\ received >= 1) =>
        /\ output.text = "device"
        /\ output.chunks = [k \in 1 .. received |-> k]

\* C19: while a read is going on, no step changes connection.connected and
\* the channel
C19_ChannelOwnedByWorker ==
    [][InFlight => connected' = connected]_vars



\* the positions of the events of one kind
EventsOf(k) == {n \in DOMAIN events : events[n].kind = k}

\* C21: a run that has ended closed the connection, called finalize once
\* and emitted finished_signal once, in that order and as its last steps;
\* a run that has not ended has done neither
C21_FinalizeOnceOnEveryExit ==
    /\ Terminal =>
         /\ Cardinality(EventsOf("finalize")) = 1
         /\ Cardinality(EventsOf("finished")) = 1
         /\ ~connected
         /\ Len(events) >= 3
         /\ events[Len(events)].kind = "finished"
         /\ events[Len(events) - 1].kind = "finalize"
         /\ events[Len(events) - 2].kind = "close"
         /\ finished.emitted
    /\ ~Terminal =>
         /\ EventsOf("finalize") = {}
         /\ EventsOf("finished") = {}
         /\ ~finished.emitted

\* a run in which a command raised and which was then stopped has ended
\* with one finalize and one finished_signal
C21_Witness ==
    /\ Terminal
    /\ \E k \in DOMAIN log : log[k].raised
    /\ broke
    /\ Cardinality(EventsOf("finalize")) = 1
    /\ Cardinality(EventsOf("finished")) = 1

\* C22: the percentages of the progress signals of a run never decrease and
\* lie in 0..100
C22_ProgressMonotonic ==
    \A j, k \in EventsOf("progress") :
        /\ events[j].percent \in 0 .. 100
        /\ j < k => events[j].percent <= events[k].percent

\* C24: the prompt pattern is detected once in a session, in connect():
\* never before, not at all when connect() failed, for Telnet after the
\* pagination commands, and whatever the commands do there is still one
\* detection when a command is in flight and when the run has ended
C24_PromptDetectedOnce ==
    /\ pc = "start" => EventsOf("detect_prompt") = {}
    /\ (pc # "start" /\ ~connect_ok) => EventsOf("detect_prompt") = {}
    /\ connect_ok => Cardinality(EventsOf("detect_prompt")) = 1
    /\ (connect_ok /\ protocol = "telnet") =>
         \A d \in EventsOf("detect_prompt") :
             \E g \in EventsOf("pagination") : g < d
    /\ (pc = "exec" \/ log # <<>>) =>
         Cardinality(EventsOf("detect_prompt")) = 1

\* a Telnet run of two commands, one of which ended by the timeout, has
\* ended with one detection
C24_Witness ==
    /\ Terminal
    /\ protocol = "telnet"
    /\ Len(log) = 2
    /\ \E k \in DOMAIN log : log[k].end = "timeout"
    /\ \E k \in DOMAIN log : ~log[k].success
    /\ Cardinality(EventsOf("detect_prompt")) = 1

\* C30: every error signal emitted for a failed connect() carries one of
\* the codes of the classification
C30_ConnectFailureClassified ==
    \A k \in EventsOf("error") : events[k].code \in ErrorCodes



\* the ip addresses of IPs made of four groups of one to three digits
WellFormedIPs ==
    {<<"1", ".", "1", ".", "1", ".", "1">>,
     <<"9", "9", "9", ".", "1", ".", "1", ".", "1">>}

\* the rules the parameters of the run violate
ViolatedRules ==
    (IF protocol \notin {"ssh", "telnet"} THEN {"protocol"} ELSE {})
    \cup (IF params.ip = <<>> THEN {"ip_empty"}
          ELSE IF params.ip \notin WellFormedIPs THEN {"ip_format"} ELSE {})
    \cup (IF params.port \notin 1 .. 65535 THEN {"port"} ELSE {})
    \cup (IF params.username = "" THEN {"username"} ELSE {})
    \cup (IF params.password = "" THEN {"password"} ELSE {})

\* C23: the validation lists every violated rule once; with a violated rule
\* the run ends with the validation error alone, nothing connected,
\* attempted, buffered or finalized; a run goes on only without errors
C23_ValidationReportsAllRules ==
    pc # "init" =>
        /\ call.fn = "validate_connection_params"
        /\ {call.res[k] : k \in DOMAIN call.res} = ViolatedRules
        /\ Len(call.res) = Cardinality(ViolatedRules)
        /\ ViolatedRules # {} =>
             /\ pc = "rejected"
             /\ events = <<ErrorEvent("validation", "")>>
             /\ ~connected /\ ~connect_ok
             /\ bm = NewBufferManager /\ files = << >>
             /\ ~finished.emitted
        /\ pc # "rejected" => ViolatedRules = {}

\* a run whose parameters violate all five rules was rejected
C23_Witness ==
    /\ pc = "rejected"
    /\ Len(call.res) = 5
    /\ protocol = "ftp"
    /\ events = <<ErrorEvent("validation", "")>>



\* s without its trailing whitespace
RECURSIVE StripRight(_)
StripRight(s) ==
    IF s # <<>> /\ s[Len(s)] \in Whitespace
    THEN StripRight(SubSeq(s, 1, Len(s) - 1)) ELSE s

\* the number of token characters s ends with
RECURSIVE TokenRun(_)
TokenRun(s) ==
    IF s # <<>> /\ s[Len(s)] = TokenChar
    THEN 1 + TokenRun(SubSeq(s, 1, Len(s) - 1)) ELSE 0

\* the buffer ends in a token followed by a prompt mark and optional
\* whitespace
EndsInPrompt(b) ==
    LET t == StripRight(b)
    IN /\ t # <<>>
       /\ t[Len(t)] = PromptMark
       /\ TokenRun(SubSeq(t, 1, Len(t) - 1)) >= 1

\* the same, with a line break directly before the token
EndsInPromptLine(b) ==
    LET t == StripRight(b)
        n == TokenRun(SubSeq(t, 1, Len(t) - 1))
    IN /\ EndsInPrompt(b)
       /\ Len(t) - 1 - n >= 1
       /\ t[Len(t) - 1 - n] = LineBreak

C26_PipelinesAgree ==
    call.fn = "pipelines" => call.res.ssh = call.res.telnet

\* the text t with every line feed replaced by the line ending e
RECURSIVE WithLineEnding(_, _)
WithLineEnding(t, e) ==
    IF t = <<>> THEN <<>>
    ELSE (IF t[1] = LF THEN e ELSE <<t[1]>>) \o WithLineEnding(Tail(t), e)

\* C27: the block holds no CR, and a text written with LF line endings
\* gives the same block when written with CRLF or with CR line endings
C27_BlockIndependentOfLineEnding ==
    call.fn = "format_command_output" =>
        /\ \A k \in DOMAIN call.res : call.res[k] # CR
        /\ (\A k \in DOMAIN call.arg : call.arg[k] # CR) =>
             \A e \in {<<CR, LF>>, <<CR>>} :
                 format_command_output_text(
                     TheCmd, WithLineEnding(call.arg, e)) = call.res

\* the formatter was applied to the echo line and a body line separated by
\* CRLF, and to a two-line text with LF
C27_Witness ==
    /\ call.fn = "format_command_output"
    /\ \/ /\ call.arg = <<"c", CR, LF, "a">>
          /\ call.res = <<"c", LF, "a", LF, LF>>
       \/ /\ call.arg = <<"a", LF, "a">>
          /\ call.res = <<"c", LF, "a", LF, "a", LF, LF>>


\* the run is over, it was not stopped, connect succeeded, no file
\* operation failed, and the command's read was one pass that delivered one
\* chunk ending in the prompt
SingleReadRun ==
    /\ Terminal /\ connect_ok /\ is_running /\ ~io_failed
    /\ Len(commands) = 1
    /\ received = 1 /\ now = 1

\* C28: a run of one command whose single read returns the output and the
\* prompt ends with one block accepted, completed_commands = 1,
\* failed_commands = 0, no idle probe sent, and a file that holds exactly
\* that block: the command, a line feed, the text received, two line feeds
C28_SingleReadRunOneBlock ==
    SingleReadRun =>
        /\ Len(accepted) = 1
        /\ accepted[1].cmd = commands[1]
        /\ accepted[1].text = "device" /\ accepted[1].marker = "none"
        /\ accepted[1].size = CmdBytes(commands[1]) + 1 + chunk_size + 2
        /\ stats.completed_commands = 1 /\ stats.failed_commands = 0
        /\ finished.completed_commands = 1 /\ finished.failed_commands = 0
        /\ probes = 0
        /\ finished.filepath \in DOMAIN files
        /\ files[finished.filepath] = accepted

\* a Telnet run of that kind is over
C28_Witness ==
    /\ SingleReadRun /\ protocol = "telnet"
    /\ Len(accepted) = 1 /\ finished.completed_commands = 1
    /\ files[finished.filepath] = accepted


\* the last method called on the connection object
LastOp ==
    IF transport.ops = <<>> THEN "none"
    ELSE transport.ops[Len(transport.ops)]

\* C29: close() never raises and leaves the object not connected, without
\* client and channel, whatever was called before; an execute_command that
\* follows a close reports failure and sends nothing
C29_CloseIdempotent ==
    /\ [](LastOp = "close" =>
            /\ ~transport.raised
            /\ ~transport.connected
            /\ ~transport.client
            /\ ~transport.channel)
    /\ [][(LastOp = "close" /\ LastOp' = "execute") =>
            (~transport'.success /\ transport'.sent = transport.sent)]_vars

\* a command was sent over a connection, the connection was closed twice,
\* and the next command was refused
C29_Witness ==
    /\ transport.ops = <<"connect", "execute", "close", "close", "execute">>
    /\ transport.sent = 1
    /\ ~transport.success /\ ~transport.raised

\* C39: the finished signal carries success = True only when connect
\* succeeded during the run
C39_SuccessOnlyWhenConnected ==
    (finished.emitted /\ finished.success) => connect_ok

\* C34: the read of a bulk-output command uses the window of 1.2s, on both
\* transports
C34_BulkUsesLargeWindow ==
    (call.fn = "idle_window" /\ is_large_output_command(call.arg[2])) =>
        call.res = 12

\* the block format_command_output is to return for a command and a text:
\* L are the lines of the text (NUL removed), first the index of the first
\* line that is not blank, and that line is left out when it is the echo
ExpectedBlock(command, text) ==
    LET cmd == strip(command)
        L == splitlines(SelectSeq(text, LAMBDA x : x # NUL))
        NonBlank == {k \in DOMAIN L : strip(L[k]) # <<>>}
        first == IF NonBlank = {} THEN Len(L) + 1
                 ELSE CHOOSE k \in NonBlank : \A j \in NonBlank : k <= j
        echo == /\ first <= Len(L)
                /\ \/ strip(L[first]) = cmd
                   \/ endswith(strip(L[first]), cmd)
        start == IF echo THEN first + 1 ELSE first
    IN cmd \o <<LF>> \o join(SubSeq(L, start, Len(L))) \o <<LF, LF>>

\* C35: format_command_output returns the stripped command, a line feed,
\* the body and two line feeds; the body is the lines of the text after the
\* leading blank lines, without the first of them exactly when that line,
\* stripped, is the command or ends with it, the other lines unchanged and
\* in order
C35_FormatRemovesOneEchoLine ==
    call.fn = "format_command_output_cmd" =>
        call.res = ExpectedBlock(call.arg.command, call.arg.text)

\* the formatter was applied to a text whose first line is a prompt token
\* followed by the command, and to a text without an echo
C35_Witness ==
    /\ call.fn = "format_command_output_cmd"
    /\ call.arg.command = <<" ", "c", " ">>
    /\ \/ /\ call.arg.text = <<"a", "c", LF, "a">>
          /\ call.res = <<"c", LF, "a", LF, LF>>
       \/ /\ call.arg.text = <<LF, "a", LF, "c">>
          /\ call.res = <<"c", LF, "a", LF, "c", LF, LF>>

\* the concatenation of the chunks
RECURSIVE Flatten(_)
Flatten(chunks) ==
    IF chunks = <<>> THEN <<>> ELSE Head(chunks) \o Flatten(Tail(chunks))

\* the last n elements of s
LastOf(s, n) == SubSeq(s, Len(s) - n + 1, Len(s))

\* the length of what the fallback pattern matches at the end of b: the
\* line break, the token, the mark and the trailing whitespace
FallbackMatchLen(b) ==
    LET t == StripRight(b)
    IN (Len(b) - Len(t)) + 1 + TokenRun(SubSeq(t, 1, Len(t) - 1)) + 1

\* the length of what the sampled pattern matches at the end of b
SampledMatchLen(b) == (Len(b) - Len(StripRight(b))) + Len(SampledPrompt)

\* C40: after the chunks of a read were appended, tail is the last
\* min(len(buf), tail_keep) bytes of buf, and a prompt pattern whose match
\* fits in tail_keep bytes matches the tail exactly when it matches buf
C40_TailIsWindowOfBuffer ==
    call.fn = "window" =>
        LET b == call.res.buf
            t == call.res.tail
            n == IF Len(b) < tail_keep THEN Len(b) ELSE tail_keep
        IN /\ b = Flatten(call.arg)
           /\ t = LastOf(b, n)
           /\ fallback_search(t) => fallback_search(b)
           /\ sampled_search(SampledPrompt, t)
                => sampled_search(SampledPrompt, b)
           /\ (fallback_search(b) /\ FallbackMatchLen(b) <= tail_keep)
                => fallback_search(t)
           /\ (sampled_search(SampledPrompt, b)
               /\ SampledMatchLen(b) <= tail_keep)
                => sampled_search(SampledPrompt, t)

\* a read of two chunks, longer than the window, that ends in a prompt the
\* window holds
C40_Witness ==
    /\ call.fn = "window"
    /\ Len(call.arg) = 2
    /\ Len(call.res.buf) > tail_keep
    /\ Len(call.res.tail) = tail_keep
    /\ fallback_search(call.res.tail)
    /\ fallback_search(call.res.buf)

\* C36: connect() returns True only when a prompt terminator and no error
\* keyword was read after the password; when it returns False there was one
\* login attempt and the object is left without client and not connected
C36_LoginNeedsPromptAndNoError ==
    call.fn = "telnet_connect" =>
        /\ call.res.ret =>
             /\ call.arg.login_prompt /\ call.arg.password_prompt
             /\ "prompt" \in call.res.seen
             /\ "error" \notin call.res.seen
        /\ ~call.res.ret =>
             /\ ~call.res.connected /\ ~call.res.client
             /\ call.res.logins = 1

\* the places of the output files, <<path, position>>, that hold block x
PlacesInFiles(x) ==
    {pk \in UNION {{p} \X DOMAIN files[p] : p \in DOMAIN files} :
        files[pk[1]][pk[2]] = x}

\* the positions of the in-memory buffer that hold block x
PlacesInBuffer(x) ==
    {k \in DOMAIN bm.output_buffer : bm.output_buffer[k] = x}

\* C38: buffer_size is the size of the blocks in memory, total_bytes the
\* size of all accepted blocks, and every accepted block is at exactly one
\* place, in the buffer or in a file
C38_BlockInExactlyOnePlace ==
    /\ bm.buffer_size = SumSizes(bm.output_buffer)
    /\ bm.total_bytes = SumSizes(accepted)
    /\ \A k \in DOMAIN accepted :
         Cardinality(PlacesInBuffer(accepted[k]))
           + Cardinality(PlacesInFiles(accepted[k])) = 1

\* C33: a probe is sent only in a pass of the main loop, when at least
\* IdleWindow ticks have passed since the last chunk was received and since
\* the last probe was sent; the SSH pass that probes receives nothing; the
\* probe resets the idle clock
C33_ProbesOneWindowApart ==
    [][probes' = probes + 1 =>
         /\ rpc = "loop"
         /\ rg.last_recv = -1 \/ now - rg.last_recv >= IdleWindow
         /\ rg.last_probe = -1 \/ now - rg.last_probe >= IdleWindow
         /\ protocol = "ssh" => received' = received
         /\ last_data_ts' > now
         /\ rg'.last_probe = now]_vars

\* two probes were sent during one read, the second one after a chunk had
\* been received
C33_Witness ==
    /\ probes = 2
    /\ rg.last_probe - rg.last_recv >= IdleWindow
    /\ rg.last_recv >= 0

\* C32: after the tail matched, the reader sends no probe, and every step it
\* takes (a step that is not stop()) absorbs a chunk that is ready or returns; it returns by the prompt
\* path only when the tail matched, before the deadline when the match was
\* before it, and the time it takes after the match is the time of the
\* chunks absorbed
C32_PromptMatchEndsRead ==
    /\ [][(rpc = "residue" /\ is_running' = is_running) =>
            /\ probes' = probes
            /\ \/ rpc' = "returned" /\ received' = received /\ now' = now
               \/ rpc' = "residue" /\ received' = received + 1]_vars
    /\ [](rpc = "returned" /\ rg.via = "prompt" =>
            /\ rg.matched
            /\ rg.match_at < Timeout
            /\ now <= rg.match_at + 1 + rg.absorbed)

\* an SSH read returned by the prompt path after it absorbed one chunk of
\* residue, without a probe
C32_Witness ==
    /\ rpc = "returned" /\ rg.via = "prompt" /\ protocol = "ssh"
    /\ rg.matched /\ rg.absorbed = 1
    /\ probes = 0
    /\ now = rg.match_at + 2

\* the blocks the session has produced and the pieces they hold
BlockPieces(b) == {b.items[j] : j \in DOMAIN b.items}

\* C31: a setup command that is rejected, raises or times out does not end
\* the session: every setup command is tried, the commands of the list are
\* executed afterwards, and no block holds the answer to a setup command
C31_SetupBestEffort ==
    sess.phase # "none" =>
        /\ sess.phase \in {"detect", "commands", "done"} =>
             sess.tried = MaxSetup
        /\ sess.phase = "done" => Len(sess.blocks) = Len(commands)
        /\ \A j \in DOMAIN sess.blocks :
             \A x \in BlockPieces(sess.blocks[j]) : x.of # "setup"

\* C37: when the read of a command returns by the prompt match, the device
\* has answered that command, and no block holds output of another command
C37_PromptReturnAfterOwnOutput ==
    sess.phase # "none" =>
        /\ sess.phase = "commands" /\ sess.rd = "returned"
              /\ sess.via = "prompt" =>
                \A j \in DOMAIN sess.inq :
                    sess.inq[j] # [of |-> "cmd", n |-> sess.k]
        /\ \A j \in DOMAIN sess.blocks :
             \A x \in BlockPieces(sess.blocks[j]) :
                 x.of = "cmd" => x.n = sess.blocks[j].cmd

====
